---- MODULE Spec2Model ----
(***************************************************************************)
(* ripple: DNS propagation checker.  One run of the Propagation Poller in  *)
(* each of its front ends:                                                 *)
(*   "sync"  dns.CheckPropagation            (src/dns/dns.go)              *)
(*   "sse"   runCheckStream                  (src/unnamed/part_000)        *)
(*   "tui"   ResultsModel.StartCheck/Cancel  (src/tui/results.go) with the *)
(*           Bubble Tea consumer Model.Update (src/tui/model.go)           *)
(* Wall-clock time is abstracted: the run deadline is a timer that fires   *)
(* at an arbitrary moment after it is armed, a tick of the retry ticker is *)
(* available at an arbitrary moment of the wait.                           *)
(*                                                                         *)
(* Three further specifications cover what the poller's run abstracts:     *)
(*   WalkSpec     the referral walk dns.FindAuthoritativeServers with      *)
(*                getAuthoritativeNS, over every pattern of responses      *)
(*   MatchSpec    the Record Matcher dns.MatchRecord and the resolver      *)
(*                check dns.CheckResolver, over bounded record sets        *)
(*   RequestSpec  the boundary of the four front ends (handleCheck,        *)
(*                handleCheckStream, main/runCLI, FormModel.submit), over  *)
(*                bounded requests                                         *)
(* Each leaves the variables of the others at their initial values.        *)
(***************************************************************************)
EXTENDS Naturals, Sequences, FiniteSets

\* ---- bounds of the model ----
\* authoritative servers returned by FindAuthoritativeServers
NumAuth == 1
\* cfg.PublicResolvers entries (the "local" resolver is always added)
NumPublic == 0
\* ticks of the retry ticker a run may consume
MaxTicks == 1
\* capacity of ResultsModel.updateCh (64 in the source, scaled down)
UpdateChCap == 2

\* NS records of one response, and distinct NS names, of the referral walk
MaxNs == 2

\* records of one answer section, of the record matcher
MaxAnswers == 2
\* characters of a target value that is a piece of a record's text
MaxTarget == 2

\* check goroutines of runCheckStream whose query finds the record (one per target)
MaxFound == 101

\* servers of one batch of checks
MaxBatch == 2

\* ---- program constants ----
\* capacity of eventCh in runCheckStream
EventChCap == 100
\* maxDepth of FindAuthoritativeServers
maxDepth == 10

FrontEnds == {"sync", "sse", "tui"}

\* Targets: authoritative servers first, then the public resolvers, then "local".
AuthServers == 1..NumAuth
Local == NumAuth + NumPublic + 1
Resolvers == (NumAuth + 1)..Local
Targets == AuthServers \cup Resolvers

VARIABLES
    fe,          \* front end running the poller
    pc,          \* position of the poller (main function / check goroutine of StartCheck)
    outcome,     \* which exit the poller took: none, Completed, TimedOut, Cancelled, Failed
    Propagated,  \* ResolverStatus.Propagated of every target
    FoundAt,     \* ResolverStatus.FoundAt: the sweep whose check set it (0: not set)
    Record,      \* ResolverStatus.Record: the matched record ("": not set)
    inflight,    \* targets whose check goroutine of the current batch has not returned (wg)
    idx,         \* loop index of the TUI "send updates" loops
    ticks,       \* ticks of the retry ticker consumed
    ctxDone,     \* parent context cancelled (TUI Cancel, SSE request context)
    deadline,    \* context.WithTimeout timer: off, armed, fired
    updateCh,    \* TUI: ResultsModel.updateCh
    eventCh,     \* SSE: eventCh
    done,        \* SSE: done channel closed
    sender,      \* SSE: sender goroutine: off, loop, drain, exit
    streamLog,   \* history of the run's event stream (what was placed in it, see Emit)
    resp,        \* sync: what CheckPropagation returned
    checking,    \* TUI: ResultsModel.checking
    cancelSet,   \* TUI: ResultsModel.cancel != nil
    checkActive, \* TUI: Model.checkActive
    cmd,         \* TUI: the waitForUpdate command: waiting, holding, idle
    inbox,       \* TUI: message read by waitForUpdate, not yet given to Update
    uiKnown,     \* TUI: entries of m.results.authoritative / m.results.resolvers
    uiProp,      \* TUI: entries of the consumer's copy with Propagated = true
    uiFoundAt,   \* TUI: FoundAt of the entries of the consumer's copy
    sawMatch,    \* history: some check returned a match
    sawNoMatch,  \* history: some check returned no match
    cancelAt,    \* history: phase of the run when cancellation was first requested
    dispatched,  \* history: number of check batches dispatched
    discoverCalls, \* history: calls of FindAuthoritativeServers
    lastCheck,   \* history: how the check that returned last ended
    sawFailure,  \* history: some check ended in a network failure
    checked,     \* history: per target, the checks it was given in the current sweep
    \* -- the referral walk --
    wpc,         \* position of FindAuthoritativeServers: idle, probe, enumerate, returned
    depth,       \* its loop variable
    nsServers,   \* its candidate list (currentNS of getAuthoritativeNS)
    response,    \* the response of the last probe or of the NS enumeration
    walkResult,  \* what FindAuthoritativeServers returned
    lookups,     \* NS names given to net.LookupIP while the last response was processed
    anyLookup,   \* history: net.LookupIP was called during the walk
    domain,      \* the domain argument the front end hands to the engine (<<>>: no call)
    resolvers,   \* the resolver targets built at run start, in order
    lookedOk,    \* the names of lookups for which net.LookupIP returned an address
    responded,   \* history: some server responded during the walk
    sawAuthoritative, \* history: a probe got an authoritative response
    rounds,      \* history: probe rounds issued
    referral,    \* history: the referral the candidate list was built from
    probe,       \* the candidate loop of the last round: who answers, who was asked
    \* -- the record matcher --
    recordType,  \* the record type of the run, as validated at the boundary
    answers,     \* the records of the response / of the resolver's lookup
    match,       \* the target value
    applied,     \* which of MatchRecord and CheckResolver have been applied
    matched,     \* the string MatchRecord returned
    resolved,    \* the (string, bool) CheckResolver returned
    \* -- the boundary of the front ends --
    request,     \* the request as the front end receives it
    rpc,         \* position of its handler: idle, received, done
    reply,       \* what the front end answered before the engine
    engine,      \* the call that starts the engine, once made
    queries,     \* DNS queries issued for the request
    \* -- the keys of the TUI --
    showHelp,    \* Model.showHelp: the help overlay is visible
    quit,        \* Model.Update returned tea.Quit
    lastKey,     \* history: the last key given to Model.Update and what it did
    \* -- the hand-off of runCheckStream, by numbers of goroutines and frames --
    finders,     \* check goroutines whose query found the record, not yet in the region
    queued,      \* len(eventCh)
    sending,     \* a check goroutine holds mu, blocked in its send on eventCh
    \* -- one batch of checks and the completion test, statement by statement --
    mu,          \* the run mutex is held
    gpc,         \* where the poller (0) and each check goroutine of the batch stand
    statuses,    \* the ResolverStatus of each server of the batch
    cur,         \* the server the dispatch loop has reached
    \* -- the views of the TUI and its checks, one after another --
    currentView, \* Model.currentView
    historyData, \* Model.historyData, most recent first
    pending,     \* messages the commands of the sub-views have produced, not yet updated
    launched,    \* number of checks StartCheck has started
    gor,         \* where the goroutine of each check stands
    chans,       \* the updateCh of each check
    ctxs,        \* the context of each check is cancelled
    readers,     \* waitForUpdate commands blocked on each updateCh
    arrived,     \* messages waitForUpdate has read, not yet given to Model.Update
    resultsRun,  \* the check whose ResultsModel is Model.results (0: the zero value)
    overlapped,  \* history: a check was started while the goroutine of another ran on
    misapplied,  \* history: a message of one check was applied to the state of a later one
    \* -- the configuration file --
    cfg,         \* the Config LoadConfig is given
    fileData,    \* what the file at path holds
    loadErr,     \* what LoadConfig returned: pending, nil, or the error
    baseCfg      \* history: the Config as it was when LoadConfig was called

vars == <<fe, pc, outcome, Propagated, FoundAt, Record, inflight, idx, ticks, ctxDone,
          deadline, updateCh, eventCh, done, sender, streamLog, resp, checking, cancelSet,
          checkActive, cmd, inbox, uiKnown, uiProp, uiFoundAt, sawMatch, sawNoMatch, cancelAt,
          dispatched, discoverCalls, lastCheck, sawFailure, checked,
          wpc, depth, nsServers, response, walkResult, lookups, anyLookup, responded,
          sawAuthoritative, rounds, referral,
          recordType, answers, match, applied, matched, resolved,
          request, rpc, reply, engine, queries, showHelp, quit, lastKey,
          finders, queued, sending, mu, gpc, statuses, cur, probe, lookedOk, resolvers, domain,
          currentView, historyData, pending, launched, gor, chans, ctxs, readers, arrived,
          resultsRun, overlapped, misapplied, cfg, fileData, loadErr, baseCfg>>

pollerVars == <<pc, outcome, idx, ticks>>
statusVars == <<Propagated, FoundAt, Record, inflight>>
ctxVars == <<ctxDone, deadline>>
sseVars == <<eventCh, done, sender>>
tuiVars == <<checking, cancelSet, checkActive, cmd, inbox, uiKnown, uiProp, uiFoundAt>>
histVars == <<sawMatch, sawNoMatch, cancelAt, dispatched, discoverCalls, lastCheck,
              sawFailure, checked>>
runVars == <<fe, resolvers, pollerVars, statusVars, ctxVars, updateCh, sseVars, streamLog, resp, tuiVars,
             histVars>>
walkVars == <<wpc, depth, nsServers, response, walkResult, lookups, anyLookup, responded,
              sawAuthoritative, rounds, referral, probe, lookedOk>>
matchVars == <<recordType, answers, match, applied, matched, resolved>>
reqVars == <<request, rpc, reply, engine, queries, domain>>
keyVars == <<showHelp, quit, lastKey>>
handoffVars == <<finders, queued, sending>>
regionVars == <<mu, gpc, statuses, cur>>
viewVars == <<currentView, historyData, pending, launched, gor, chans, ctxs, readers, arrived,
              resultsRun, overlapped, misapplied>>
cfgVars == <<cfg, fileData, loadErr, baseCfg>>
auxVars == <<walkVars, matchVars, reqVars, keyVars, handoffVars, regionVars, viewVars, cfgVars>>

\* ---- events ----
Ev(type, t) == [type |-> type, t |-> t]
NoMsg == Ev("none", 0)

TerminalTypes == {"CheckCompleteMsg", "CheckTimeoutMsg", "CheckCancelledMsg", "CheckErrorMsg",
                  "complete", "timeout", "error"}
PropagatedTypes == {"ServerPropagatedMsg", "auth_propagated", "resolver_propagated"}
CompleteTypes == {"CheckCompleteMsg", "complete"}
TimeoutTypes == {"CheckTimeoutMsg", "timeout"}
CancelledTypes == {"CheckCancelledMsg"}
ErrorTypes == {"CheckErrorMsg", "error"}

\* ServerStatus entries of a CheckResponse: found_after and record are omitted from
\* the JSON when empty (0 and "" here)
NoStatus == [t \in Targets |-> [Propagated |-> FALSE, FoundAfter |-> 0, Record |-> ""]]

\* what CheckPropagation returned: nothing yet, (nil, err), or (response, nil)
Resp(kind, all) == [kind |-> kind, AllPropagated |-> all, Status |-> NoStatus]
NoResp == Resp("none", FALSE)

IsTerminal(e) == e.type \in TerminalTypes
IsPropagated(e) == e.type \in PropagatedTypes

\* ---- history of the event stream ----
\* The stream of a run is the sequence of frames written to the response (SSE) or of
\* messages placed in updateCh (TUI).  Its history is kept as:
\*   terms     the first two terminal events placed in it, in order
\*   propSent  per target, how many propagation events were placed in it (0, 1, 2 = more)
\*   emitted   the types of the events placed in it
\*   late      a non-terminal event was placed in it after a terminal event
\*   order     the types of the events placed in it, in the order of their first event
EmptyLog ==
    [terms |-> <<>>, propSent |-> [t \in Targets |-> 0], emitted |-> {}, late |-> FALSE,
     order |-> <<>>]

Emit(l, e) ==
    [terms |-> IF IsTerminal(e) /\ Len(l.terms) < 2 THEN Append(l.terms, e.type) ELSE l.terms,
     propSent |-> IF IsPropagated(e) /\ l.propSent[e.t] < 2
                  THEN [l.propSent EXCEPT ![e.t] = @ + 1] ELSE l.propSent,
     emitted |-> l.emitted \cup {e.type},
     late |-> (l.late \/ (~IsTerminal(e) /\ l.terms # <<>>)),
     order |-> IF e.type \in l.emitted THEN l.order ELSE Append(l.order, e.type)]

RECURSIVE EmitAll(_, _)
EmitAll(l, s) == IF s = <<>> THEN l ELSE EmitAll(Emit(l, Head(s)), Tail(s))

\* how one check of a target ends: QueryAuthoritativeRecord and CheckResolver report a
\* network failure (timeout, refused connection, malformed response) as they report a
\* missing record: "" / ("", false)
CheckResults == {"match", "nomatch", "failure"}
Found(r) == r = "match"
\* the record string a matching check returns
MatchedRecord == "record"

\* ---- the referral walk: names, addresses, responses ----
NsNames == 1..MaxNs
\* the NS records of a section, in order
Sections == UNION {[1..n -> NsNames] : n \in 0..MaxNs}

\* "ip:53" entries of a candidate list: a configured root server, the address of a
\* glue A record, the first address net.LookupIP returned
RootAddr == [from |-> "root", name |-> 0]
GlueAddr(n) == [from |-> "glue", name |-> n]
HostAddr(n) == [from |-> "lookup", name |-> n]
rootServers == <<RootAddr>>
\* a configured root server entry that is the empty string, and the lists
\* FindAuthoritativeServers may be given
BlankAddr == [from |-> "blank", name |-> 0]
RootLists == {<<>>, rootServers, <<BlankAddr, RootAddr>>}

\* *mdns.Msg as the walk reads it: the AA bit, the NS names of the answer and of the
\* authority section, the names that own an A record in the additional section
Msg(aa, an, ns, extra) ==
    [nil |-> FALSE, Authoritative |-> aa, Answer |-> an, Ns |-> ns, Extra |-> extra]
\* response == nil: every candidate failed
NilMsg == [nil |-> TRUE, Authoritative |-> FALSE, Answer |-> <<>>, Ns |-> <<>>, Extra |-> {}]

\* ([]*ResolverStatus, error) of FindAuthoritativeServers
NoResult == [kind |-> "none", err |-> "", servers |-> <<>>]
WalkError(e) == [kind |-> "error", err |-> e, servers |-> <<>>]
WalkOK(servers) == [kind |-> "ok", err |-> "", servers |-> servers]

\* the candidate loop of a round: the length of the list, the candidates that answer
\* when asked, the number of candidates asked, the one whose response is kept (0: nil)
NoProbe == [n |-> 0, answering |-> {}, asked |-> 0, from |-> 0]

\* the walk before FindAuthoritativeServers is called
WalkIdle ==
    /\ wpc = "idle"
    /\ depth = 0
    /\ nsServers = <<>>
    /\ response = NilMsg
    /\ walkResult = NoResult
    /\ lookups = {}
    /\ anyLookup = FALSE
    /\ responded = FALSE
    /\ sawAuthoritative = FALSE
    /\ rounds = 0
    /\ referral = NilMsg
    /\ probe = NoProbe
    /\ lookedOk = {}

\* ---- the record matcher: before it is applied ----
\* (string, bool) of CheckResolver
NotFound == [record |-> <<>>, found |-> FALSE]

MatchIdle ==
    /\ recordType = ""
    /\ answers = <<>>
    /\ match = <<>>
    /\ applied = {}
    /\ matched = <<>>
    /\ resolved = NotFound

\* ---- the boundary of the front ends: before a request arrives ----
NoRequest == [via |-> "none", args |-> 0, domain |-> "", type |-> "", match |-> ""]
NoReply == [kind |-> "none", errors |-> {}]

RequestIdle ==
    /\ request = NoRequest
    /\ rpc = "idle"
    /\ reply = NoReply
    /\ engine = "none"
    /\ queries = 0
    /\ domain = <<>>

\* a key press as Model.Update saw it: the key, m.checkActive and m.showHelp at the
\* press, and what the handler did
Key(k, active, help, effect) == [key |-> k, active |-> active, help |-> help, effect |-> effect]
NoKey == Key("none", FALSE, FALSE, "none")

\* ---- the hand-off of runCheckStream: before a sweep ----
HandoffIdle ==
    /\ finders = 0
    /\ queued = 0
    /\ sending = FALSE

\* ---- one batch, statement by statement: before the dispatch loop ----
Unset == [Propagated |-> FALSE, FoundAt |-> 0, Record |-> ""]
RegionIdle ==
    /\ mu = FALSE
    /\ gpc = [g \in 0..MaxBatch |-> "idle"]
    /\ statuses = [i \in 1..MaxBatch |-> Unset]
    /\ cur = 1

\* ---- the views of the TUI: a run of the poller is shown in the results view ----
MaxRuns == 2
Runs == 1..MaxRuns
\* the capacity of the updateCh of each of these checks
ViewChCap == 1
ViewIdle ==
    /\ currentView = "ViewResults"
    /\ historyData = <<>>
    /\ pending = <<>>
    /\ launched = 0
    /\ gor = [r \in Runs |-> "off"]
    /\ chans = [r \in Runs |-> <<>>]
    /\ ctxs = [r \in Runs |-> FALSE]
    /\ readers = [r \in Runs |-> 0]
    /\ arrived = <<>>
    /\ resultsRun = 0
    /\ overlapped = FALSE
    /\ misapplied = FALSE

\* ---- the configuration file: no LoadConfig call ----
NoConfig == [Listen |-> "", PublicResolvers |-> <<>>, RootServers |-> <<>>,
             Timeout |-> "", Retry |-> "", RecordType |-> ""]
NoFile == [kind |-> "none", keys |-> NoConfig]
ConfigIdle ==
    /\ cfg = NoConfig
    /\ fileData = NoFile
    /\ loadErr = "pending"
    /\ baseCfg = NoConfig

\* ---- the resolver targets ----
\* cfg.PublicResolvers, in configuration order
PublicResolvers == [i \in 1..NumPublic |-> [from |-> "public", name |-> i]]

\* &ResolverStatus{Name: "local", Addr: ""}
LocalResolver == [Name |-> [from |-> "local", name |-> 0], Addr |-> BlankAddr]

\* (mutant) the local resolver is not appended
BuildResolvers_NoLocal(public) ==
    [i \in DOMAIN public |-> [Name |-> [from |-> "host", name |-> public[i].name],
                              Addr |-> public[i]]]
\* one &ResolverStatus{Name: strings.Split(addr, ":")[0], Addr: addr} for each
\* configured address, then the local resolver
BuildResolvers(public) ==
    [i \in DOMAIN public |-> [Name |-> [from |-> "host", name |-> public[i].name],
                              Addr |-> public[i]]] \o <<LocalResolver>>

PollingStates == {"auth", "authWait", "authSend", "res", "resWait", "resSend", "eval", "wait"}

TypeOK ==
    /\ fe \in FrontEnds
    /\ pc \in PollingStates \cup {"discover", "sendDiscovered", "sendResolvers", "sendError",
                                  "sendComplete", "sendTimeout", "sleep", "build", "done"}
    /\ outcome \in {"none", "Completed", "TimedOut", "Cancelled", "Failed"}
    /\ Propagated \in [Targets -> BOOLEAN]
    /\ resolvers \in {<<>>, BuildResolvers(PublicResolvers)}
    /\ FoundAt \in [Targets -> 0..(MaxTicks + 1)]
    /\ Record \in [Targets -> {"", MatchedRecord}]
    /\ uiFoundAt \in [Targets -> 0..(MaxTicks + 1)]
    /\ lastCheck \in CheckResults \cup {"none"}
    /\ sawFailure \in BOOLEAN
    /\ checked \in [Targets -> 0..2]
    /\ inflight \subseteq Targets
    /\ idx \in 0..(Local + 1)
    /\ ticks \in 0..MaxTicks
    /\ ctxDone \in BOOLEAN
    /\ deadline \in {"off", "armed", "fired"}
    /\ Len(updateCh) <= UpdateChCap
    /\ Len(eventCh) <= EventChCap
    /\ done \in BOOLEAN
    /\ sender \in {"off", "loop", "drain", "exit"}
    /\ checking \in BOOLEAN /\ cancelSet \in BOOLEAN /\ checkActive \in BOOLEAN
    /\ cmd \in {"waiting", "holding", "idle"}
    /\ uiKnown \subseteq Targets /\ uiProp \subseteq uiKnown

\* one run of the poller in front end f, from the call of the front end
RunInit(f) ==
    /\ fe = f
    /\ resolvers = <<>>
    /\ pc = "discover"
    /\ outcome = "none"
    /\ Propagated = [t \in Targets |-> FALSE]
    /\ FoundAt = [t \in Targets |-> 0]
    /\ Record = [t \in Targets |-> ""]
    /\ inflight = {}
    /\ idx = 0
    /\ ticks = 0
    /\ ctxDone = FALSE
    \* runCheckStream arms its timeout before discovery (part_000:743)
    /\ deadline = IF fe = "sse" THEN "armed" ELSE "off"
    /\ updateCh = <<>>
    /\ eventCh = <<>>
    /\ done = FALSE
    /\ sender = "off"
    /\ streamLog = EmptyLog
    /\ resp = NoResp
    \* Model.Update(FormSubmitMsg) and StartCheck have run: model.go:73-80, results.go:120-124
    /\ checking = (fe = "tui")
    /\ cancelSet = (fe = "tui")
    /\ checkActive = (fe = "tui")
    /\ cmd = IF fe = "tui" THEN "waiting" ELSE "idle"
    /\ inbox = NoMsg
    /\ uiKnown = {}
    /\ uiProp = {}
    /\ uiFoundAt = [t \in Targets |-> 0]
    /\ lastCheck = "none"
    /\ sawFailure = FALSE
    /\ sawMatch = FALSE
    /\ sawNoMatch = FALSE
    /\ cancelAt = "none"
    /\ dispatched = 0
    /\ discoverCalls = 0
    \* tui.New: the help overlay is closed
    /\ showHelp = FALSE
    /\ quit = FALSE
    /\ lastKey = NoKey
    /\ checked = [t \in Targets |-> 0]

PollerInit == \E f \in FrontEnds : RunInit(f)

Init == PollerInit /\ WalkIdle /\ MatchIdle /\ RequestIdle /\ HandoffIdle /\ RegionIdle /\ ViewIdle /\ ConfigIdle

\* ---- contexts ----
\* (mutant) the wait never sees its context done
TimeoutDone_Never == FALSE

\* <-ctx.Done() of the context the poller waits on: the timeout context, a child of
\* the parent context in the SSE and TUI front ends
TimeoutDone == deadline = "fired" \/ ctxDone

\* time.AfterFunc of context.WithTimeout; defer cancel() stops it when the run returns
DeadlineFire ==
    /\ deadline = "armed"
    /\ pc # "done"
    /\ deadline' = "fired"
    /\ UNCHANGED <<auxVars, fe, resolvers, pollerVars, statusVars, ctxDone, updateCh, sseVars, streamLog,
                   resp, tuiVars, histVars>>

Phase == IF pc \in PollingStates THEN "polling"
         ELSE IF pc \in {"discover", "sendDiscovered", "sendResolvers"} THEN "discovering"
         ELSE "after"

\* ---- discovery ----
\* (mutant) the resolver list is written before the discovered servers
DiscoveryFrames_ResolversFirst ==
    [i \in 1..(NumPublic + 1) |-> Ev("resolver", NumAuth + i)] \o
    [i \in 1..NumAuth |-> Ev("discovered", i)]

\* the "discovered" frames then the "resolver" frames written by runCheckStream
DiscoveryFrames ==
    [i \in 1..NumAuth |-> Ev("discovered", i)] \o
    [i \in 1..(NumPublic + 1) |-> Ev("resolver", NumAuth + i)]

\* (mutant) the error branch reports the error and falls through instead of returning
DiscoverFail_NoReturn ==
    /\ pc = "discover"
    /\ discoverCalls' = discoverCalls + 1
    /\ outcome' = "Failed"
    /\ pc' = IF fe = "tui" THEN "sendDiscovered" ELSE "auth"
    /\ resp' = IF fe = "sync" THEN Resp("error", FALSE) ELSE resp
    /\ streamLog' = IF fe = "sse" THEN Emit(streamLog, Ev("error", 0)) ELSE streamLog
    /\ UNCHANGED <<auxVars, fe, resolvers, idx, ticks, statusVars, ctxVars, updateCh, sseVars, tuiVars,
                   sawMatch, sawNoMatch, cancelAt, dispatched, lastCheck, sawFailure, checked>>

\* FindAuthoritativeServers returned an error
DiscoverFail ==
    /\ pc = "discover"
    /\ discoverCalls' = discoverCalls + 1
    /\ outcome' = "Failed"
    /\ pc' = IF fe = "tui" THEN "sendError" ELSE "done"
    /\ resp' = IF fe = "sync" THEN Resp("error", FALSE) ELSE resp
    /\ streamLog' = IF fe = "sse" THEN Emit(streamLog, Ev("error", 0)) ELSE streamLog
    /\ UNCHANGED <<auxVars, fe, resolvers, idx, ticks, statusVars, ctxVars, updateCh, sseVars, tuiVars,
                   sawMatch, sawNoMatch, cancelAt, dispatched, lastCheck, sawFailure, checked>>

\* FindAuthoritativeServers returned the authoritative servers; the resolver list is built
DiscoverOK ==
    /\ pc = "discover"
    /\ discoverCalls' = discoverCalls + 1
    /\ pc' = IF fe = "tui" THEN "sendDiscovered" ELSE "auth"
    /\ deadline' = IF fe = "sync" THEN "armed" ELSE deadline
    /\ streamLog' = IF fe = "sse" THEN EmitAll(streamLog, DiscoveryFrames) ELSE streamLog
    /\ sender' = IF fe = "sse" THEN "loop" ELSE sender
    \* StartCheck builds its list after AuthServerDiscoveredMsg is sent
    /\ resolvers' = IF fe = "tui" THEN resolvers ELSE BuildResolvers(PublicResolvers)
    /\ UNCHANGED <<auxVars, fe, outcome, idx, ticks, statusVars, ctxDone, updateCh, eventCh,
                   done, resp, tuiVars, sawMatch, sawNoMatch, cancelAt, dispatched, lastCheck,
                   sawFailure, checked>>

\* ---- TUI: the blocking sends  select { case ch <- msg: ; case <-ctx.Done(): } ----
TuiMsgAt(p) ==
    CASE p = "sendError" -> Ev("CheckErrorMsg", 0)
      [] p = "sendDiscovered" -> Ev("AuthServerDiscoveredMsg", 0)
      [] p = "sendResolvers" -> Ev("ResolverInitializedMsg", 0)
      [] p = "sendComplete" -> Ev("CheckCompleteMsg", 0)
      [] p = "sendTimeout" -> Ev("CheckTimeoutMsg", 0)

TuiAfter(p) ==
    CASE p = "sendDiscovered" -> "sendResolvers"
      [] p = "sendResolvers" -> "auth"
      [] OTHER -> "done"

TuiSendStates == {"sendError", "sendDiscovered", "sendResolvers", "sendComplete", "sendTimeout"}

\* case ch <- msg
TuiSend ==
    /\ fe = "tui"
    /\ pc \in TuiSendStates
    /\ Len(updateCh) < UpdateChCap
    /\ updateCh' = Append(updateCh, TuiMsgAt(pc))
    /\ streamLog' = Emit(streamLog, TuiMsgAt(pc))
    /\ pc' = TuiAfter(pc)
    \* the timeout context is created after the resolver list was sent (results.go:195)
    /\ deadline' = IF pc = "sendResolvers" THEN "armed" ELSE deadline
    /\ resolvers' = IF pc = "sendDiscovered" THEN BuildResolvers(PublicResolvers) ELSE resolvers
    /\ UNCHANGED <<auxVars, fe, outcome, idx, ticks, statusVars, ctxDone, sseVars, resp,
                   tuiVars, histVars>>

\* case <-ctx.Done(): return
TuiSendAbort ==
    /\ fe = "tui"
    /\ pc \in TuiSendStates
    /\ ctxDone
    /\ pc' = "done"
    /\ UNCHANGED <<auxVars, fe, resolvers, outcome, idx, ticks, statusVars, ctxVars, updateCh, sseVars,
                   streamLog, resp, tuiVars, histVars>>

\* ---- one sweep ----
\* (mutant) the skip test is missing: every server of the batch is checked
Unpropagated_All(S) == S

\* (mutant) the skip test is inverted: only propagated servers are checked again
Unpropagated_Inverted(S) == {t \in S : Propagated[t]}

\* the servers of a batch that get a check goroutine: those not yet propagated
Unpropagated(S) == {t \in S : ~Propagated[t]}

\* CheckAuthoritativeAllSilent / checkAll: spawn one goroutine per unpropagated server
DispatchAuth ==
    /\ pc = "auth"
    /\ inflight' = inflight \cup Unpropagated(AuthServers)
    /\ checked' = [t \in Targets |-> IF t \in Unpropagated(AuthServers) /\ checked[t] < 2
                                       THEN checked[t] + 1 ELSE checked[t]]
    /\ pc' = "authWait"
    /\ dispatched' = dispatched + 1
    /\ UNCHANGED <<auxVars, fe, resolvers, outcome, idx, ticks, Propagated, FoundAt, Record, ctxVars,
                   updateCh, sseVars, streamLog, resp, tuiVars, sawMatch, sawNoMatch, cancelAt,
                   discoverCalls, lastCheck, sawFailure>>

\* CheckResolverAllSilent / checkAll: spawn one goroutine per unpropagated resolver
DispatchRes ==
    /\ pc = "res"
    /\ inflight' = inflight \cup Unpropagated(Resolvers)
    /\ checked' = [t \in Targets |-> IF t \in Unpropagated(Resolvers) /\ checked[t] < 2
                                       THEN checked[t] + 1 ELSE checked[t]]
    /\ pc' = "resWait"
    /\ dispatched' = dispatched + 1
    /\ UNCHANGED <<auxVars, fe, resolvers, outcome, idx, ticks, Propagated, FoundAt, Record, ctxVars,
                   updateCh, sseVars, streamLog, resp, tuiVars, sawMatch, sawNoMatch, cancelAt,
                   discoverCalls, lastCheck, sawFailure>>

\* (mutant) the result of the check is not tested before the status is updated
FirstSuccess_IgnoreFound(t, found) == ~Propagated[t]

\* the guarded update of one check goroutine:  if found { mu.Lock(); if !s.Propagated {...} }
FirstSuccess(t, found) == found /\ ~Propagated[t]

\* the propagation frame checkAll puts on eventCh
PropagatedFrame(t) ==
    IF t \in AuthServers THEN Ev("auth_propagated", t) ELSE Ev("resolver_propagated", t)

\* (mutant) the elapsed time is taken when the sweep starts counting, not at the write
Elapsed_Stale == ticks
\* time.Since(startTime) at the write, in sweeps: the k-th sweep writes k
Elapsed == ticks + 1

\* a check goroutine of the current batch returns with its result
CheckReturn(t, found) ==
    /\ t \in inflight
    \* runCheckStream sends on eventCh inside the locked region: a full channel blocks
    /\ (fe = "sse" /\ FirstSuccess(t, found)) => Len(eventCh) < EventChCap
    /\ inflight' = inflight \ {t}
    /\ Propagated' = IF FirstSuccess(t, found) THEN [Propagated EXCEPT ![t] = TRUE]
                     ELSE Propagated
    /\ FoundAt' = IF FirstSuccess(t, found) THEN [FoundAt EXCEPT ![t] = Elapsed] ELSE FoundAt
    /\ Record' = IF FirstSuccess(t, found) THEN [Record EXCEPT ![t] = MatchedRecord]
                 ELSE Record
    /\ eventCh' = IF fe = "sse" /\ FirstSuccess(t, found)
                  THEN Append(eventCh, PropagatedFrame(t)) ELSE eventCh
    /\ sawMatch' = (sawMatch \/ found)
    /\ sawNoMatch' = (sawNoMatch \/ ~found)
    /\ UNCHANGED <<auxVars, fe, resolvers, pollerVars, ctxVars, updateCh, done, sender, streamLog, resp,
                   tuiVars, cancelAt, dispatched, discoverCalls, checked>>

\* the goroutine of one check: the query, then the guarded update of the status
CheckGoroutine(t, r) ==
    /\ CheckReturn(t, Found(r))
    /\ lastCheck' = r
    /\ sawFailure' = (sawFailure \/ r = "failure")

\* (mutant) the barrier does not wait
WaitGroupDone_NoWait == TRUE
\* wg.Wait(): every goroutine of the batch has called wg.Done()
WaitGroupDone == inflight = {}

\* wg.Wait() of the authoritative batch returns
BarrierAuth ==
    /\ pc = "authWait"
    /\ WaitGroupDone
    /\ pc' = IF fe = "tui" THEN "authSend" ELSE "res"
    /\ idx' = IF fe = "tui" THEN 1 ELSE idx
    /\ UNCHANGED <<auxVars, fe, resolvers, outcome, ticks, statusVars, ctxVars, updateCh, sseVars,
                   streamLog, resp, tuiVars, histVars>>

\* wg.Wait() of the resolver batch returns
BarrierRes ==
    /\ pc = "resWait"
    /\ WaitGroupDone
    /\ pc' = IF fe = "tui" THEN "resSend" ELSE "eval"
    /\ idx' = IF fe = "tui" THEN NumAuth + 1 ELSE idx
    /\ UNCHANGED <<auxVars, fe, resolvers, outcome, ticks, statusVars, ctxVars, updateCh, sseVars,
                   streamLog, resp, tuiVars, histVars>>

\* ServerPropagatedMsg{..., FoundAt: s.FoundAt, Record: s.Record}
PropagatedMsg(t) ==
    [type |-> "ServerPropagatedMsg", t |-> t, FoundAt |-> FoundAt[t], Record |-> Record[t]]

\* TUI: one iteration of a "send updates" loop: a non-blocking send of
\* ServerPropagatedMsg for a server whose Propagated flag is set
TuiSendUpdate ==
    /\ fe = "tui"
    /\ pc \in {"authSend", "resSend"}
    /\ LET sent == Propagated[idx] /\ Len(updateCh) < UpdateChCap
           last == IF pc = "authSend" THEN NumAuth ELSE Local
       IN /\ updateCh' = IF sent THEN Append(updateCh, PropagatedMsg(idx)) ELSE updateCh
          /\ streamLog' = IF sent THEN Emit(streamLog, PropagatedMsg(idx)) ELSE streamLog
          /\ idx' = idx + 1
          /\ pc' = IF idx < last THEN pc ELSE IF pc = "authSend" THEN "res" ELSE "eval"
    /\ UNCHANGED <<auxVars, fe, resolvers, outcome, ticks, statusVars, ctxVars, sseVars, resp, tuiVars,
                   histVars>>

\* (mutant) the completion test looks at the authoritative servers only
AllDone_AuthOnly == \A t \in AuthServers : Propagated[t]
\* allDone: every authoritative server and every resolver is propagated
AllDone == (\A s \in AuthServers : Propagated[s]) /\ (\A r \in Resolvers : Propagated[r])

\* the completion test after a sweep
Eval ==
    /\ pc = "eval"
    /\ IF AllDone
       THEN /\ outcome' = "Completed"
            /\ pc' = CASE fe = "sync" -> "build" [] fe = "sse" -> "sleep"
                       [] fe = "tui" -> "sendComplete"
            \* runCheckStream: close(done)
            /\ done' = IF fe = "sse" THEN TRUE ELSE done
       ELSE /\ pc' = "wait"
            /\ UNCHANGED <<outcome, done>>
    /\ UNCHANGED <<auxVars, fe, resolvers, idx, ticks, statusVars, ctxVars, updateCh, eventCh, sender,
                   streamLog, resp, tuiVars, sawMatch, sawNoMatch, cancelAt, dispatched,
                   discoverCalls, lastCheck, sawFailure, checked>>

\* select: case <-ctx.Done()
WaitTimeout ==
    /\ pc = "wait"
    /\ TimeoutDone
    /\ outcome' = IF fe = "tui" /\ ctxDone THEN "Cancelled" ELSE "TimedOut"
    /\ pc' = CASE fe = "sync" -> "build" [] fe = "sse" -> "sleep"
               [] fe = "tui" -> IF ctxDone THEN "done" ELSE "sendTimeout"
    /\ done' = IF fe = "sse" THEN TRUE ELSE done
    /\ UNCHANGED <<auxVars, fe, resolvers, idx, ticks, statusVars, ctxVars, updateCh, eventCh, sender,
                   streamLog, resp, tuiVars, histVars>>

\* select: case <-ticker.C
WaitTick ==
    /\ pc = "wait"
    /\ ticks < MaxTicks
    /\ ticks' = ticks + 1
    /\ pc' = "auth"
    /\ checked' = [t \in Targets |-> 0]
    /\ UNCHANGED <<auxVars, fe, resolvers, outcome, idx, statusVars, ctxVars, updateCh, sseVars, streamLog,
                   resp, tuiVars, sawMatch, sawNoMatch, cancelAt, dispatched, discoverCalls,
                   lastCheck, sawFailure>>

\* (mutant) found_after and record are copied whether or not the flag is set, and the
\* flag reported is that of a finished check
ServerStatus_Unconditional(t) ==
    [Propagated |-> FoundAt[t] >= 0, FoundAfter |-> FoundAt[t], Record |-> Record[t]]
\* the ServerStatus built from one ResolverStatus: FoundAfter and Record are set only
\* if s.Propagated (FormatDuration of a set FoundAt is never empty)
ServerStatus(t) ==
    [Propagated |-> Propagated[t],
     FoundAfter |-> IF Propagated[t] THEN FoundAt[t] ELSE 0,
     Record |-> IF Propagated[t] THEN Record[t] ELSE ""]

\* CheckPropagation: buildResponse.  AllPropagated starts true and is cleared by every
\* entry of either list that is not propagated
BuildResponse ==
    /\ fe = "sync"
    /\ pc = "build"
    /\ resp' = [kind |-> "response",
                AllPropagated |-> ~(\E t \in AuthServers \cup Resolvers : ~Propagated[t]),
                Status |-> [t \in Targets |-> ServerStatus(t)]]
    /\ pc' = "done"
    /\ UNCHANGED <<auxVars, fe, resolvers, outcome, idx, ticks, statusVars, ctxVars, updateCh, sseVars,
                   streamLog, tuiVars, histVars>>

\* ---- SSE ----
\* runCheckStream, after close(done) and the 50 ms sleep: the terminal frame
SseWriteTerminal ==
    /\ fe = "sse"
    /\ pc = "sleep"
    /\ streamLog' = Emit(streamLog, Ev(IF outcome = "Completed" THEN "complete" ELSE "timeout", 0))
    /\ pc' = "done"
    /\ UNCHANGED <<auxVars, fe, resolvers, outcome, idx, ticks, statusVars, ctxVars, updateCh, sseVars,
                   resp, tuiVars, histVars>>

\* sender goroutine: case event := <-eventCh: sendSSE (in its loop or while draining)
SenderRecv ==
    /\ sender \in {"loop", "drain"}
    /\ eventCh # <<>>
    /\ streamLog' = Emit(streamLog, Head(eventCh))
    /\ eventCh' = Tail(eventCh)
    /\ UNCHANGED <<auxVars, fe, resolvers, pollerVars, statusVars, ctxVars, updateCh, done, sender, resp,
                   tuiVars, histVars>>

\* sender goroutine: case <-done
SenderSeeDone ==
    /\ sender = "loop"
    /\ done
    /\ sender' = "drain"
    /\ UNCHANGED <<auxVars, fe, resolvers, pollerVars, statusVars, ctxVars, updateCh, eventCh, done,
                   streamLog, resp, tuiVars, histVars>>

\* sender goroutine: default: return
SenderReturn ==
    /\ sender = "drain"
    /\ eventCh = <<>>
    /\ sender' = "exit"
    /\ UNCHANGED <<auxVars, fe, resolvers, pollerVars, statusVars, ctxVars, updateCh, eventCh, done,
                   streamLog, resp, tuiVars, histVars>>

\* the HTTP client goes away: the request context is cancelled
RequestCancel ==
    /\ fe = "sse"
    /\ pc # "done"
    /\ ~ctxDone
    /\ ctxDone' = TRUE
    /\ cancelAt' = Phase
    /\ UNCHANGED <<auxVars, fe, resolvers, pollerVars, statusVars, deadline, updateCh, sseVars, streamLog,
                   resp, tuiVars, sawMatch, sawNoMatch, dispatched, discoverCalls, lastCheck,
                   sawFailure, checked>>

\* ---- TUI consumer ----
\* Model.Update(ctrl+c / esc) while checkActive in the results view: ResultsModel.Cancel
KeyCancel ==
    /\ fe = "tui"
    /\ checkActive
    /\ ctxDone' = (ctxDone \/ cancelSet)
    /\ cancelSet' = FALSE
    /\ LET sent == checking /\ Len(updateCh) < UpdateChCap
       IN /\ updateCh' = IF sent THEN Append(updateCh, Ev("CheckCancelledMsg", 0))
                         ELSE updateCh
          /\ streamLog' = IF sent THEN Emit(streamLog, Ev("CheckCancelledMsg", 0)) ELSE streamLog
    /\ cancelAt' = IF cancelAt = "none" THEN Phase ELSE cancelAt
    /\ UNCHANGED <<auxVars, fe, resolvers, pollerVars, statusVars, deadline, sseVars, resp, checking,
                   checkActive, cmd, inbox, uiKnown, uiProp, uiFoundAt, sawMatch, sawNoMatch,
                   dispatched, discoverCalls, lastCheck, sawFailure, checked>>

\* waitForUpdate: msg, ok := <-ch
ConsumerRead ==
    /\ cmd = "waiting"
    /\ updateCh # <<>>
    /\ inbox' = Head(updateCh)
    /\ updateCh' = Tail(updateCh)
    /\ cmd' = "holding"
    /\ UNCHANGED <<auxVars, fe, resolvers, pollerVars, statusVars, ctxVars, sseVars, streamLog, resp,
                   checking, cancelSet, checkActive, uiKnown, uiProp, uiFoundAt, histVars>>

\* Model.Update / ResultsModel.Update of the message waitForUpdate returned
ConsumerUpdate ==
    /\ cmd = "holding"
    /\ inbox' = NoMsg
    /\ IF IsTerminal(inbox)
       THEN /\ checkActive' = FALSE
            /\ checking' = FALSE
            /\ cmd' = "idle"
            /\ UNCHANGED <<uiKnown, uiProp, uiFoundAt>>
       ELSE /\ cmd' = "waiting"
            /\ UNCHANGED <<checkActive, checking>>
            /\ CASE inbox.type = "AuthServerDiscoveredMsg" ->
                      /\ uiKnown' = uiKnown \cup AuthServers
                      /\ uiProp' = uiProp \ AuthServers
                      /\ uiFoundAt' = [t \in Targets |->
                                          IF t \in AuthServers THEN 0 ELSE uiFoundAt[t]]
                 [] inbox.type = "ResolverInitializedMsg" ->
                      /\ uiKnown' = uiKnown \cup Resolvers
                      /\ uiProp' = uiProp \ Resolvers
                      /\ uiFoundAt' = [t \in Targets |->
                                          IF t \in Resolvers THEN 0 ELSE uiFoundAt[t]]
                 [] inbox.type = "ServerPropagatedMsg" ->
                      /\ uiProp' = IF inbox.t \in uiKnown THEN uiProp \cup {inbox.t} ELSE uiProp
                      /\ uiFoundAt' = IF inbox.t \in uiKnown \ uiProp
                                      THEN [uiFoundAt EXCEPT ![inbox.t] = inbox.FoundAt]
                                      ELSE uiFoundAt
                      /\ uiKnown' = uiKnown
    /\ UNCHANGED <<auxVars, fe, resolvers, pollerVars, statusVars, ctxVars, updateCh, sseVars, streamLog,
                   resp, cancelSet, histVars>>

PollerStep ==
    \/ DiscoverFail \/ DiscoverOK
    \/ TuiSend \/ TuiSendAbort \/ TuiSendUpdate
    \/ DispatchAuth \/ BarrierAuth \/ DispatchRes \/ BarrierRes
    \/ Eval \/ WaitTimeout \/ WaitTick
    \/ BuildResponse \/ SseWriteTerminal

ChecksStep == \E t \in Targets, r \in CheckResults : CheckGoroutine(t, r)

SenderStep == SenderRecv \/ SenderSeeDone \/ SenderReturn

ConsumerStep == ConsumerRead \/ ConsumerUpdate

Next ==
    \/ PollerStep
    \/ ChecksStep
    \/ DeadlineFire
    \/ SenderStep
    \/ RequestCancel
    \/ KeyCancel
    \/ ConsumerStep

Spec == Init /\ [][Next]_vars

\* the scheduling the termination claim assumes: every goroutine that can take a step
\* eventually does, every check returns, the deadline is finite and the Bubble Tea
\* loop keeps delivering the messages its waitForUpdate command reads
FairSpec ==
    /\ Spec
    /\ WF_vars(PollerStep)
    /\ WF_vars(ChecksStep)
    /\ WF_vars(DeadlineFire)
    /\ WF_vars(ConsumerStep)

\* ==== the CLI: runCLI ====
\* FindAuthoritativeServers returns: on an error (or an empty list) os.Exit(1), else
\* the timeout context is created and the first authoritative batch follows
CliDiscover(ok) ==
    /\ fe = "cli"
    /\ pc = "discover"
    /\ discoverCalls' = discoverCalls + 1
    /\ outcome' = IF ok THEN outcome ELSE "Failed"
    /\ pc' = IF ok THEN "auth" ELSE "done"
    /\ deadline' = IF ok THEN "armed" ELSE deadline
    /\ UNCHANGED <<auxVars, fe, resolvers, idx, ticks, statusVars, ctxDone, updateCh, sseVars, streamLog,
                   resp, tuiVars, sawMatch, sawNoMatch, cancelAt, dispatched, lastCheck,
                   sawFailure, checked>>

\* wg.Wait() of CheckAuthoritativeAllVerbose / CheckResolverAllVerbose returns and the
\* loop condition is tested: allAuthPropagated() lets the run go on to the resolvers,
\* allResolversPropagated() ends it
CliBarrier ==
    /\ fe = "cli"
    /\ pc \in {"authWait", "resWait"}
    /\ WaitGroupDone
    /\ IF pc = "authWait"
       THEN /\ pc' = IF \A r \in AuthServers : Propagated[r] THEN "res" ELSE "authRetry"
            /\ outcome' = outcome
       ELSE /\ pc' = IF \A r \in Resolvers : Propagated[r] THEN "done" ELSE "resRetry"
            /\ outcome' = IF \A r \in Resolvers : Propagated[r] THEN "Completed" ELSE outcome
    \* runCLI builds the resolver list when the authoritative phase is over
    /\ resolvers' = IF pc' = "res" THEN BuildResolvers(PublicResolvers) ELSE resolvers
    /\ UNCHANGED <<auxVars, fe, idx, ticks, statusVars, ctxVars, updateCh, sseVars, streamLog,
                   resp, tuiVars, histVars>>

\* select: case <-ctx.Done(): PrintSummary, os.Exit(1)
CliTimeout ==
    /\ fe = "cli"
    /\ pc \in {"authRetry", "resRetry"}
    /\ TimeoutDone
    /\ outcome' = "TimedOut"
    /\ pc' = "done"
    /\ UNCHANGED <<auxVars, fe, resolvers, idx, ticks, statusVars, ctxVars, updateCh, sseVars, streamLog,
                   resp, tuiVars, histVars>>

\* select: case <-ticker.C: the batch of the phase again
CliTick ==
    /\ fe = "cli"
    /\ pc \in {"authRetry", "resRetry"}
    /\ ticks < MaxTicks
    /\ ticks' = ticks + 1
    /\ pc' = IF pc = "authRetry" THEN "auth" ELSE "res"
    /\ checked' = [t \in Targets |-> 0]
    /\ UNCHANGED <<auxVars, fe, resolvers, outcome, idx, statusVars, ctxVars, updateCh, sseVars, streamLog,
                   resp, tuiVars, sawMatch, sawNoMatch, cancelAt, dispatched, discoverCalls,
                   lastCheck, sawFailure>>

CliInit == RunInit("cli") /\ WalkIdle /\ MatchIdle /\ RequestIdle /\ HandoffIdle /\ RegionIdle /\ ViewIdle /\ ConfigIdle

CliNext ==
    \/ \E ok \in BOOLEAN : CliDiscover(ok)
    \/ DispatchAuth
    \/ DispatchRes
    \/ ChecksStep
    \/ CliBarrier
    \/ CliTimeout
    \/ CliTick
    \/ DeadlineFire

CliSpec == CliInit /\ [][CliNext]_vars

\* ==== the hand-off of runCheckStream: check goroutines, eventCh, sender goroutine ====
\* the targets are interchangeable here: the goroutines and the frames are counted
HandoffInit ==
    /\ RunInit("sse")
    /\ WalkIdle /\ MatchIdle /\ RequestIdle /\ RegionIdle /\ ViewIdle /\ ConfigIdle
    /\ finders \in 1..MaxFound
    /\ queued = 0
    /\ sending = FALSE

\* a check goroutine that found the record: mu.Lock(), the status is written, then
\* eventCh <- StreamEvent{...} with mu held; the send returns at once if the buffer
\* has room and blocks otherwise
CheckerSend ==
    /\ finders > 0
    /\ ~sending
    /\ finders' = finders - 1
    /\ IF queued < EventChCap
       THEN queued' = queued + 1 /\ sending' = sending
       ELSE queued' = queued /\ sending' = TRUE
    /\ UNCHANGED <<regionVars, viewVars, cfgVars, walkVars, matchVars, reqVars, keyVars, runVars>>

\* the blocked send completes once the buffer has room; mu.Unlock()
CheckerUnblock ==
    /\ sending
    /\ queued < EventChCap
    /\ queued' = queued + 1
    /\ sending' = FALSE
    /\ UNCHANGED <<regionVars, viewVars, cfgVars, walkVars, matchVars, reqVars, keyVars, runVars, finders>>

\* the sender goroutine: event := <-eventCh; sendSSE returns when the client has
\* taken the frame
SenderWrite ==
    /\ queued > 0
    /\ queued' = queued - 1
    /\ UNCHANGED <<regionVars, viewVars, cfgVars, walkVars, matchVars, reqVars, keyVars, runVars, finders, sending>>

HandoffNext == CheckerSend \/ CheckerUnblock \/ SenderWrite

HandoffSpec == HandoffInit /\ [][HandoffNext]_vars

\* ==== one batch of checks and the completion test, statement by statement ====
\* CheckAuthoritativeAllSilent (CheckResolverAllSilent and checkAll of runCheckStream
\* have the same statements) followed by the allDone test of the polling loop
BatchIdx == 1..MaxBatch

\* a ResolverStatus a check of an earlier sweep has filled
Filled == [Propagated |-> TRUE, FoundAt |-> Elapsed, Record |-> MatchedRecord]

RegionInit ==
    /\ RunInit("sync")
    /\ WalkIdle /\ MatchIdle /\ RequestIdle /\ HandoffIdle /\ ViewIdle /\ ConfigIdle
    /\ mu = FALSE
    /\ gpc = [g \in 0..MaxBatch |-> IF g = 0 THEN "skipLock" ELSE "idle"]
    /\ statuses \in [BatchIdx -> {Unset, Filled}]
    /\ cur = 1

\* (mutant) mu.Lock() returns whether or not the mutex is held
MuFree_NoWait == TRUE
\* mu.Lock() returns only when the mutex is free
MuFree == ~mu

\* the statements between mu.Lock() and mu.Unlock()
InRegion(g) == gpc[g] \in {"skipRead", "testRead", "setP", "setF", "setR", "unlock"}

\* mu.Lock(): by the dispatch loop, by a check goroutine that found the record, by
\* the completion test
MuLock(g) ==
    /\ gpc[g] \in {"skipLock", "testLock", "lock"}
    /\ MuFree
    /\ mu' = TRUE
    /\ gpc' = [gpc EXCEPT ![g] = CASE gpc[g] = "skipLock" -> "skipRead"
                                    [] gpc[g] = "testLock" -> "testRead"
                                    [] gpc[g] = "lock" -> "setP"]
    /\ UNCHANGED <<walkVars, matchVars, reqVars, keyVars, handoffVars, viewVars, cfgVars, runVars, statuses, cur>>

\* the dispatch loop: if s.Propagated { mu.Unlock(); continue }; mu.Unlock();
\* wg.Add(1); go func(s)
SkipTest ==
    /\ gpc[0] = "skipRead"
    /\ mu' = FALSE
    /\ gpc' = [gpc EXCEPT ![0] = IF cur < MaxBatch THEN "skipLock" ELSE "wait",
                           ![cur] = IF statuses[cur].Propagated THEN "idle" ELSE "query"]
    /\ cur' = IF cur < MaxBatch THEN cur + 1 ELSE cur
    /\ UNCHANGED <<walkVars, matchVars, reqVars, keyVars, handoffVars, viewVars, cfgVars, runVars, statuses>>

\* record := QueryAuthoritativeRecord(...); if record != "" { mu.Lock() ...
Query(g, ok) ==
    /\ gpc[g] = "query"
    /\ gpc' = [gpc EXCEPT ![g] = IF ok THEN "lock" ELSE "done"]
    /\ UNCHANGED <<walkVars, matchVars, reqVars, keyVars, handoffVars, viewVars, cfgVars, runVars, mu, statuses,
                   cur>>

\* if !s.Propagated { s.Propagated = true; s.FoundAt = ...; s.Record = record }
\* one assignment a step
WriteStatus(g) ==
    /\ gpc[g] \in {"setP", "setF", "setR"}
    /\ CASE gpc[g] = "setP" ->
              IF statuses[g].Propagated
              THEN /\ gpc' = [gpc EXCEPT ![g] = "unlock"]
                   /\ statuses' = statuses
              ELSE /\ gpc' = [gpc EXCEPT ![g] = "setF"]
                   /\ statuses' = [statuses EXCEPT ![g].Propagated = TRUE]
         [] gpc[g] = "setF" ->
              /\ gpc' = [gpc EXCEPT ![g] = "setR"]
              /\ statuses' = [statuses EXCEPT ![g].FoundAt = Elapsed]
         [] gpc[g] = "setR" ->
              /\ gpc' = [gpc EXCEPT ![g] = "unlock"]
              /\ statuses' = [statuses EXCEPT ![g].Record = MatchedRecord]
    /\ UNCHANGED <<walkVars, matchVars, reqVars, keyVars, handoffVars, viewVars, cfgVars, runVars, mu, cur>>

\* mu.Unlock() of a check goroutine, then wg.Done()
MuUnlock(g) ==
    /\ gpc[g] = "unlock"
    /\ mu' = FALSE
    /\ gpc' = [gpc EXCEPT ![g] = "done"]
    /\ UNCHANGED <<walkVars, matchVars, reqVars, keyVars, handoffVars, viewVars, cfgVars, runVars, statuses, cur>>

\* wg.Wait() returns: every goroutine started has called wg.Done()
BatchBarrier ==
    /\ gpc[0] = "wait"
    /\ \A g \in BatchIdx : gpc[g] \in {"idle", "done"}
    /\ gpc' = [gpc EXCEPT ![0] = "testLock"]
    /\ UNCHANGED <<walkVars, matchVars, reqVars, keyVars, handoffVars, viewVars, cfgVars, runVars, mu, statuses,
                   cur>>

\* the allDone loops, then mu.Unlock()
AllDoneTest ==
    /\ gpc[0] = "testRead"
    /\ mu' = FALSE
    /\ gpc' = [gpc EXCEPT ![0] = IF \A i \in BatchIdx : statuses[i].Propagated
                                  THEN "break" ELSE "select"]
    /\ UNCHANGED <<walkVars, matchVars, reqVars, keyVars, handoffVars, viewVars, cfgVars, runVars, statuses, cur>>

RegionNext ==
    \/ \E g \in 0..MaxBatch : MuLock(g)
    \/ SkipTest
    \/ \E g \in BatchIdx, ok \in BOOLEAN : Query(g, ok)
    \/ \E g \in BatchIdx : WriteStatus(g)
    \/ \E g \in BatchIdx : MuUnlock(g)
    \/ BatchBarrier
    \/ AllDoneTest

RegionSpec == RegionInit /\ [][RegionNext]_vars

\* ==== the keys of the TUI during and after a check ====
\* the keys of the model
Keys == {"ctrl+c", "esc", "?"}

\* Model.Update(tea.KeyMsg): the help overlay consumes every key, "?" opens it outside
\* the text input views, esc and ctrl+c cancel an active check in the results view
\* (ResultsModel.Cancel), ctrl+c quits otherwise; other keys go to the view
UpdateKey(k) ==
    /\ fe = "tui"
    /\ ~quit
    /\ LET cancels == /\ ~showHelp
                      /\ k \in {"esc", "ctrl+c"}
                      /\ checkActive /\ currentView = "ViewResults"
           quits == ~showHelp /\ k = "ctrl+c" /\ ~cancels
           opens == ~showHelp /\ k = "?" /\ currentView # "ViewForm"
           sent == cancels /\ checking /\ Len(updateCh) < UpdateChCap
       IN /\ showHelp' = IF showHelp THEN k \notin {"?", "esc"} ELSE opens
          /\ quit' = quits
          /\ ctxDone' = IF cancels THEN (ctxDone \/ cancelSet) ELSE ctxDone
          /\ cancelSet' = IF cancels THEN FALSE ELSE cancelSet
          /\ updateCh' = IF sent THEN Append(updateCh, Ev("CheckCancelledMsg", 0))
                         ELSE updateCh
          /\ streamLog' = IF sent THEN Emit(streamLog, Ev("CheckCancelledMsg", 0))
                          ELSE streamLog
          /\ cancelAt' = IF cancels /\ cancelAt = "none" THEN Phase ELSE cancelAt
          /\ lastKey' = Key(k, checkActive, showHelp,
                            CASE showHelp /\ k \in {"?", "esc"} -> "dismiss"
                              [] showHelp /\ k \notin {"?", "esc"} -> "consumed"
                              [] cancels -> "cancel"
                              [] quits -> "quit"
                              [] opens -> "help"
                              [] OTHER -> "view")
    /\ UNCHANGED <<regionVars, handoffVars, viewVars, cfgVars, walkVars, matchVars, reqVars, fe, resolvers,
                   pollerVars, statusVars, deadline, sseVars, resp, checking, checkActive, cmd, inbox, uiKnown, uiProp,
                   uiFoundAt, sawMatch, sawNoMatch, dispatched, discoverCalls, lastCheck,
                   sawFailure, checked>>

\* a check started from the form
KeyInit == Init /\ fe = "tui"

\* the poller goroutine of StartCheck, its checks, the deadline, the Bubble Tea loop
\* and the keyboard
KeyNext ==
    \/ DiscoverFail \/ DiscoverOK
    \/ TuiSend \/ TuiSendAbort \/ TuiSendUpdate
    \/ DispatchAuth \/ BarrierAuth \/ DispatchRes \/ BarrierRes
    \/ Eval \/ WaitTimeout \/ WaitTick
    \/ ChecksStep
    \/ DeadlineFire
    \/ ConsumerStep
    \/ \E k \in Keys : UpdateKey(k)

KeySpec == KeyInit /\ [][KeyNext]_vars

\* ==== the views of the TUI: Model.Update over the form, the checks and the history ====
Views == {"ViewForm", "ViewResults", "ViewHistory", "ViewConfig"}

\* the keys Model.Update tests, and enter for the sub-views
NavKeys == {"n", "h", "c", "?", "esc", "ctrl+c", "q", "enter"}

\* the messages of a check the top-level model records in the history
TuiTerminal == {"CheckCompleteMsg", "CheckTimeoutMsg", "CheckCancelledMsg", "CheckErrorMsg"}

\* a message a sub-view's command produced; a message read from the updateCh of a check
Produced(type, i) == [type |-> type, Index |-> i]
From(type, r) == [type |-> type, run |-> r]
StartTypes == {"FormSubmitMsg", "HistoryRerunMsg"}

Without(s, i) == [j \in 1..(Len(s) - 1) |-> IF j < i THEN s[j] ELSE s[j + 1]]

\* the copy of the ResultsModel a history entry keeps
Kept(r, cancel) == [run |-> r, cancel |-> cancel]

\* tui.New: the form is shown, no check is active, the history is empty
ViewInit ==
    /\ RunInit("form")
    /\ WalkIdle /\ MatchIdle /\ RequestIdle /\ HandoffIdle /\ RegionIdle /\ ConfigIdle
    /\ currentView = "ViewForm"
    /\ historyData = <<>>
    /\ pending = <<>>
    /\ launched = 0
    /\ gor = [r \in Runs |-> "off"]
    /\ chans = [r \in Runs |-> <<>>]
    /\ ctxs = [r \in Runs |-> FALSE]
    /\ readers = [r \in Runs |-> 0]
    /\ arrived = <<>>
    /\ resultsRun = 0
    /\ overlapped = FALSE
    /\ misapplied = FALSE

viewRest == <<walkVars, matchVars, reqVars, handoffVars, regionVars, cfgVars, fe, resolvers,
              pollerVars, statusVars, ctxVars, updateCh, sseVars, streamLog, resp, cmd, inbox,
              uiKnown, uiProp, uiFoundAt, histVars>>

\* the goroutine of a check is between its start and its return, its context not cancelled
Running(r) == gor[r] \notin {"off", "exit"} /\ ~ctxs[r]

\* a message read from the updateCh of check r reaches state that belongs to a later check
Belated(r) == r < resultsRun \/ (checkActive /\ r < launched)

\* Model.Update(FormSubmitMsg) and Model.Update(HistoryRerunMsg): a new ResultsModel, the
\* results view, checkActive, and StartCheck with its goroutine and its waitForUpdate
StartRun(i) ==
    /\ ~quit
    /\ i \in DOMAIN pending
    /\ launched < MaxRuns
    /\ LET r == launched + 1
       IN /\ launched' = r
          /\ resultsRun' = r
          /\ gor' = [gor EXCEPT ![r] = "discover"]
          /\ readers' = [readers EXCEPT ![r] = 1]
          /\ overlapped' = (overlapped \/ \E q \in 1..launched : Running(q))
    /\ currentView' = "ViewResults"
    /\ checkActive' = TRUE
    /\ checking' = TRUE
    /\ cancelSet' = TRUE
    /\ pending' = Without(pending, i)
    /\ UNCHANGED <<viewRest, showHelp, quit, lastKey, historyData, chans, ctxs, arrived,
                   misapplied>>

UpdateSubmit == \E i \in DOMAIN pending : pending[i].type = "FormSubmitMsg" /\ StartRun(i)

UpdateRerun == \E i \in DOMAIN pending : pending[i].type = "HistoryRerunMsg" /\ StartRun(i)

\* Model.Update(HistorySelectMsg): the kept ResultsModel of the entry becomes m.results
UpdateSelect ==
    /\ ~quit
    /\ \E i \in DOMAIN pending :
         /\ pending[i].type = "HistorySelectMsg"
         /\ pending' = Without(pending, i)
         /\ IF pending[i].Index >= 1 /\ pending[i].Index <= Len(historyData)
            THEN /\ resultsRun' = historyData[pending[i].Index].Results.run
                 /\ cancelSet' = historyData[pending[i].Index].Results.cancel
                 /\ checking' = FALSE
                 /\ currentView' = "ViewResults"
            ELSE UNCHANGED <<resultsRun, cancelSet, checking, currentView>>
    /\ UNCHANGED <<viewRest, showHelp, quit, lastKey, checkActive, historyData, launched, gor,
                   chans, ctxs, readers, arrived, overlapped, misapplied>>

\* the Status appendHistory gives the entry
EntryStatus(type) ==
    CASE type = "CheckCompleteMsg" -> "complete"
      [] type = "CheckTimeoutMsg" -> "timeout"
      [] type = "CheckCancelledMsg" -> "cancelled"
      [] OTHER -> "error"

appendHistory_AtEnd(type) ==
    Append(historyData, [Status |-> EntryStatus(type), Results |-> Kept(resultsRun, cancelSet)])

\* Model.appendHistory: the entry is built from m.results and prepended
appendHistory(type) ==
    <<[Status |-> EntryStatus(type), Results |-> Kept(resultsRun, cancelSet)]>> \o historyData

\* Model.Update of a terminal message: checkActive is cleared, ResultsModel.Update
\* clears checking and issues no further read, appendHistory records the entry
\* (the key history of the check ends with it)
UpdateTerminal ==
    /\ ~quit
    /\ \E i \in DOMAIN arrived :
         /\ arrived[i].type \in TuiTerminal
         /\ arrived' = Without(arrived, i)
         /\ historyData' = appendHistory(arrived[i].type)
         /\ misapplied' = (misapplied \/ Belated(arrived[i].run))
    /\ checkActive' = FALSE
    /\ checking' = FALSE
    /\ lastKey' = NoKey
    /\ UNCHANGED <<viewRest, showHelp, quit, cancelSet, currentView, pending, launched,
                   gor, chans, ctxs, readers, resultsRun, overlapped>>

\* Model.Update of any other message of a check: it is delegated to the current
\* sub-view; ResultsModel.Update applies it and reads on from m.updateCh, the other
\* views drop it
UpdateProgress ==
    /\ ~quit
    /\ \E i \in DOMAIN arrived :
         /\ arrived[i].type \notin TuiTerminal
         /\ arrived' = Without(arrived, i)
         /\ IF currentView = "ViewResults"
            THEN /\ readers' = [readers EXCEPT ![resultsRun] = @ + 1]
                 /\ misapplied' = (misapplied \/ Belated(arrived[i].run))
            ELSE UNCHANGED <<readers, misapplied>>
    /\ UNCHANGED <<viewRest, showHelp, quit, lastKey, checkActive, checking, cancelSet,
                   currentView, historyData, pending, launched, gor, chans, ctxs, resultsRun,
                   overlapped>>

Navigates_WhileActive(k, inputActive) == k \in {"n", "h", "c"} /\ ~inputActive

\* the global navigation keys act only when no check is active and no text input is
Navigates(k, inputActive) == k \in {"n", "h", "c"} /\ ~checkActive /\ ~inputActive

\* what the command of the sub-view a key is delegated to can produce: the form
\* submits on enter, the history view selects or reruns one of its entries
Yields(k) ==
    LET starts == Cardinality({i \in DOMAIN pending : pending[i].type \in StartTypes})
        selects == Cardinality({i \in DOMAIN pending : pending[i].type = "HistorySelectMsg"})
        room == launched + starts < MaxRuns
    IN {<<>>}
       \cup (IF k = "enter" /\ currentView = "ViewForm" /\ room
             THEN {<<Produced("FormSubmitMsg", 0)>>} ELSE {})
       \cup (IF k = "enter" /\ currentView = "ViewHistory" /\ historyData # <<>> /\ room
             THEN {<<Produced("HistoryRerunMsg", 0)>>} ELSE {})
       \cup (IF k = "enter" /\ currentView = "ViewHistory" /\ selects = 0
             THEN {<<Produced("HistorySelectMsg", j)>> : j \in 1..Len(historyData)} ELSE {})

\* ResultsModel.Cancel on m.results: the context of its check is cancelled once, and
\* CheckCancelledMsg is offered to its updateCh without blocking while it is checking
CancelCtxs == IF cancelSet /\ resultsRun > 0 THEN [ctxs EXCEPT ![resultsRun] = TRUE] ELSE ctxs
CancelChans ==
    IF checking /\ resultsRun > 0 /\ Len(chans[resultsRun]) < ViewChCap
    THEN [chans EXCEPT ![resultsRun] = Append(@, "CheckCancelledMsg")]
    ELSE chans

\* Model.Update(tea.KeyMsg) with every view: the help overlay, the cancel of an active
\* check, quit, the navigation keys, then the delegation to the current sub-view
\* (editing: configView.isEditing())
UpdateNavKey(k, editing) ==
    /\ ~quit
    /\ LET inputActive == currentView = "ViewForm" \/ (currentView = "ViewConfig" /\ editing)
           opens == ~showHelp /\ k = "?" /\ ~inputActive
           cancels == /\ ~showHelp
                      /\ k \in {"esc", "ctrl+c"}
                      /\ checkActive /\ currentView = "ViewResults"
           quits == ~showHelp /\ ~cancels /\ (k = "ctrl+c" \/ (k = "q" /\ ~inputActive))
           moves == ~showHelp /\ Navigates(k, inputActive)
           delegated == ~showHelp /\ ~opens /\ ~cancels /\ ~quits /\ ~moves
       IN /\ editing => currentView = "ViewConfig"
          /\ \E yield \in (IF delegated THEN Yields(k) ELSE {<<>>}) :
                pending' = pending \o yield
          /\ showHelp' = IF showHelp THEN k \notin {"?", "esc"} ELSE opens
          /\ quit' = quits
          /\ ctxs' = IF cancels THEN CancelCtxs ELSE ctxs
          /\ cancelSet' = IF cancels THEN FALSE ELSE cancelSet
          /\ chans' = IF cancels THEN CancelChans ELSE chans
          /\ currentView' = CASE moves /\ k = "n" -> "ViewForm"
                               [] moves /\ k = "h" -> "ViewHistory"
                               [] moves /\ k = "c" -> "ViewConfig"
                               [] OTHER -> currentView
          \* the navigation key last given to Model.Update during the active check
          /\ lastKey' = IF ~showHelp /\ checkActive /\ k \in {"n", "h", "c"}
                        THEN Key(k, TRUE, FALSE, IF moves THEN "move" ELSE "view")
                        ELSE lastKey
    /\ UNCHANGED <<viewRest, checkActive, checking, historyData, launched, gor, readers,
                   arrived, resultsRun, overlapped, misapplied>>

\* waitForUpdate: one message is read from the updateCh the command was given
WaitForUpdate(r) ==
    /\ ~quit
    /\ readers[r] > 0
    /\ chans[r] # <<>>
    /\ readers' = [readers EXCEPT ![r] = @ - 1]
    /\ chans' = [chans EXCEPT ![r] = Tail(@)]
    /\ arrived' = Append(arrived, From(Head(chans[r]), r))
    /\ UNCHANGED <<viewRest, keyVars, checkActive, checking, cancelSet, currentView, historyData,
                   pending, launched, gor, ctxs, resultsRun, overlapped, misapplied>>

\* select { case ch <- msg: ; case <-ctx.Done(): return } of the goroutine of check r
\* (offered: the select is reached)
GoSend(r, type, next, offered) ==
    /\ ~quit
    /\ \/ /\ offered
          /\ Len(chans[r]) < ViewChCap
          /\ chans' = [chans EXCEPT ![r] = Append(@, type)]
          /\ gor' = [gor EXCEPT ![r] = next]
       \/ /\ ctxs[r]
          /\ gor' = [gor EXCEPT ![r] = "exit"]
          /\ chans' = chans
    /\ UNCHANGED <<viewRest, keyVars, checkActive, checking, cancelSet, currentView, historyData,
                   pending, launched, ctxs, readers, arrived, resultsRun, overlapped,
                   misapplied>>

\* the goroutine of StartCheck: FindAuthoritativeServers, then CheckErrorMsg and return,
\* or AuthServerDiscoveredMsg
GoDiscover(r, ok) ==
    /\ gor[r] = "discover"
    /\ IF ok THEN GoSend(r, "AuthServerDiscoveredMsg", "resolvers", TRUE)
       ELSE GoSend(r, "CheckErrorMsg", "exit", TRUE)

\* the resolver list is built and sent
GoResolvers(r) ==
    /\ gor[r] = "resolvers"
    /\ GoSend(r, "ResolverInitializedMsg", "sweeps", TRUE)

\* the end of the polling loop: CheckCompleteMsg after a sweep with everything
\* propagated, CheckTimeoutMsg when the deadline passed and the check was not cancelled
\* (ctx.Err() != nil: return without a message)
GoFinish(r, type) ==
    /\ gor[r] = "sweeps"
    /\ GoSend(r, type, "exit", type = "CheckCompleteMsg" \/ ~ctxs[r])

ViewNext ==
    \/ UpdateSubmit
    \/ UpdateRerun
    \/ UpdateSelect
    \/ UpdateTerminal
    \/ UpdateProgress
    \/ \E k \in NavKeys, editing \in BOOLEAN : UpdateNavKey(k, editing)
    \/ \E r \in Runs : WaitForUpdate(r)
    \/ \E r \in Runs, ok \in BOOLEAN : GoDiscover(r, ok)
    \/ \E r \in Runs : GoResolvers(r)
    \/ \E r \in Runs, type \in {"CheckCompleteMsg", "CheckTimeoutMsg"} : GoFinish(r, type)

ViewSpec == ViewInit /\ [][ViewNext]_vars

\* ==== the configuration file: LoadConfig ====
\* the fields of Config, Defaults flattened
StringFields == {"Listen", "Timeout", "Retry", "RecordType"}
ListFields == {"PublicResolvers", "RootServers"}

\* DefaultConfig, with one entry for each list; a Config already changed by flags
DefaultConfig == [Listen |-> "", PublicResolvers |-> <<"1.1.1.1:53">>,
                  RootServers |-> <<"198.41.0.4:53">>,
                  Timeout |-> "1m", Retry |-> "5s", RecordType |-> "a"]
BaseConfigs == {DefaultConfig, [DefaultConfig EXCEPT !.Listen = ":8080"]}

\* what a YAML document holds for a key: <<>> when the key is absent, <<v>> when it is
\* present with value v (v may be the empty string or the empty list)
FileStrings == {<<>>, <<"">>, <<"file">>}
FileLists == {<<>>, <<<<>>>>, <<<<"9.9.9.9:53">>>>}
YamlDocs ==
    [Listen : FileStrings, PublicResolvers : FileLists, RootServers : FileLists,
     Timeout : FileStrings, Retry : FileStrings, RecordType : FileStrings]

\* the file at path: not readable, not YAML of a Config, or a document
File(kind, keys) == [kind |-> kind, keys |-> keys]
Files == {File("unreadable", NoConfig), File("malformed", NoConfig)}
         \cup {File("yaml", d) : d \in YamlDocs}

\* yaml.Unmarshal into a zero Config: an absent key leaves the zero value
Unmarshal(d) ==
    [f \in DOMAIN d |-> IF d[f] = <<>>
                        THEN (IF f \in ListFields THEN <<>> ELSE "")
                        ELSE d[f][1]]

IsSet_Present(d, f) == d[f] # <<>>

\* the tests of LoadConfig on fileConfig: != "" for a string, len(...) > 0 for a list
IsSet(d, f) == IF f \in ListFields THEN Len(Unmarshal(d)[f]) > 0 ELSE Unmarshal(d)[f] # ""

\* the merge of LoadConfig: a field of cfg is overwritten when it is set in the file
Merge(base, d) == [f \in DOMAIN base |-> IF IsSet(d, f) THEN Unmarshal(d)[f] ELSE base[f]]

ConfigInit ==
    /\ RunInit("sync")
    /\ WalkIdle /\ MatchIdle /\ RequestIdle /\ HandoffIdle /\ RegionIdle /\ ViewIdle
    /\ cfg \in BaseConfigs
    /\ fileData \in Files
    /\ loadErr = "pending"
    /\ baseCfg = cfg

\* LoadConfig(cfg, path): os.ReadFile, yaml.Unmarshal, the merge
LoadConfig ==
    /\ loadErr = "pending"
    /\ baseCfg' = cfg
    /\ CASE fileData.kind = "unreadable" -> loadErr' = "read" /\ cfg' = cfg
         [] fileData.kind = "malformed" -> loadErr' = "parse" /\ cfg' = cfg
         [] OTHER -> loadErr' = "nil" /\ cfg' = Merge(cfg, fileData.keys)
    /\ UNCHANGED <<runVars, walkVars, matchVars, reqVars, keyVars, handoffVars, regionVars,
                   viewVars, fileData>>

ConfigNext == LoadConfig

ConfigSpec == ConfigInit /\ [][ConfigNext]_vars

\* ==== the referral walk: FindAuthoritativeServers and getAuthoritativeNS ====
\* FindAuthoritativeServers(domain, rootServers) is called
WalkInit ==
    /\ PollerInit /\ fe = "sync"
    /\ MatchIdle /\ RequestIdle /\ HandoffIdle /\ RegionIdle /\ ViewIdle /\ ConfigIdle
    /\ wpc = "probe"
    /\ depth = 0
    /\ nsServers \in RootLists
    /\ response = NilMsg
    /\ walkResult = NoResult
    /\ lookups = {}
    /\ anyLookup = FALSE
    /\ responded = FALSE
    /\ sawAuthoritative = FALSE
    /\ rounds = 0
    /\ referral = NilMsg
    /\ probe = NoProbe
    /\ lookedOk = {}

\* (mutant) the loop bound is off by one
LoopCond_OffByOne == depth <= maxDepth
\* for depth := 0; depth < maxDepth; depth++
LoopCond == depth < maxDepth

\* (mutant) the glue map is not consulted
UseGlue_Never(n, glue) == FALSE
\* if ip, ok := glue[nsName]; ok
UseGlue(n, glue) == n \in glue

\* the NS names handed to net.LookupIP: those without a glue record
LookedUp(names, glue) == {names[i] : i \in DOMAIN names} \ {n \in NsNames : UseGlue(n, glue)}

\* (mutant) the addresses are prepended: the list comes out in reverse NS order
RECURSIVE ResolveNS_Reversed(_, _, _)
ResolveNS_Reversed(names, glue, up) ==
    IF names = <<>> THEN <<>>
    ELSE LET n == Head(names)
             rest == ResolveNS_Reversed(Tail(names), glue, up)
         IN IF UseGlue(n, glue) THEN rest \o <<GlueAddr(n)>>
            ELSE IF n \in up THEN rest \o <<HostAddr(n)>>
            ELSE rest
\* the address list built from NS names: the glue address if there is one, else the
\* first address of net.LookupIP; a name whose lookup fails (not in up) is left out
RECURSIVE ResolveNS(_, _, _)
ResolveNS(names, glue, up) ==
    IF names = <<>> THEN <<>>
    ELSE LET n == Head(names)
             rest == ResolveNS(Tail(names), glue, up)
         IN IF UseGlue(n, glue) THEN <<GlueAddr(n)>> \o rest
            ELSE IF n \in up THEN <<HostAddr(n)>> \o rest
            ELSE rest

\* &ResolverStatus{Name: strings.TrimSuffix(nsName, "."), Addr: ip + ":53"}
NsName(n) == [from |-> "ns", name |-> n]
\* (mutant) the endpoints of the enumeration are built without their address
Endpoints_NoAddr(addrs) ==
    [i \in DOMAIN addrs |-> [Name |-> NsName(addrs[i].name), Addr |-> BlankAddr]]
Endpoints(addrs) == [i \in DOMAIN addrs |-> [Name |-> NsName(addrs[i].name), Addr |-> addrs[i]]]
\* (mutant) the fallback keeps only the first candidate
Fallback_First(currentNS) == <<[Name |-> currentNS[1], Addr |-> currentNS[1]]>>
\* (mutant) the fallback returns the empty result it was given
Fallback_Empty(currentNS) == <<>>
\* "Fall back to using the current NS list":
\* &ResolverStatus{Name: strings.TrimSuffix(ns, ":53"), Addr: ns}
Fallback(currentNS) == [i \in DOMAIN currentNS |-> [Name |-> currentNS[i], Addr |-> currentNS[i]]]

\* the responses a probe can get from a server that is not authoritative, and the
\* responses to the NS query of the enumeration
Referrals == {Msg(FALSE, <<>>, ns, extra) : ns \in Sections, extra \in SUBSET NsNames}
NsAnswers == {Msg(TRUE, an, ns, extra) : an \in Sections, ns \in Sections, extra \in SUBSET NsNames}

\* (mutant) the loop has no break: every candidate is asked, the last answer is kept
RECURSIVE QueryInOrder_NoBreak(_, _, _)
QueryInOrder_NoBreak(cands, answering, i) ==
    IF i > Len(cands) THEN [n |-> Len(cands), answering |-> answering, asked |-> i - 1, from |-> 0]
    ELSE LET later == QueryInOrder_NoBreak(cands, answering, i + 1)
         IN IF i \in answering /\ later.from = 0 THEN [later EXCEPT !.from = i] ELSE later
\* for _, ns := range nsServers { response, err = QueryDNS(ns, ...);
\*     if err == nil && response != nil { break } }, from candidate i on
RECURSIVE QueryInOrder(_, _, _)
QueryInOrder(cands, answering, i) ==
    IF i > Len(cands) THEN [n |-> Len(cands), answering |-> answering, asked |-> i - 1, from |-> 0]
    ELSE IF i \in answering
         THEN [n |-> Len(cands), answering |-> answering, asked |-> i, from |-> i]
         ELSE QueryInOrder(cands, answering, i + 1)

\* the candidate loop of a round, for some set of candidates that answer; response
\* is nil after it iff no response was kept
CandidateLoop(isNil) ==
    \* QueryDNS fails on an empty server address: c.Exchange cannot dial it
    \E a \in SUBSET {i \in DOMAIN nsServers : nsServers[i] # BlankAddr} :
        /\ probe' = QueryInOrder(nsServers, a, 1)
        /\ (probe'.from = 0) = isNil

\* one round of the loop in which no candidate answers: response == nil
ProbeNoResponse ==
    /\ wpc = "probe"
    /\ LoopCond
    /\ CandidateLoop(TRUE)
    /\ rounds' = rounds + 1
    /\ response' = NilMsg
    /\ lookups' = {}
    /\ lookedOk' = {}
    /\ walkResult' = WalkError("no response from nameservers")
    /\ wpc' = "returned"
    /\ UNCHANGED <<depth, nsServers, anyLookup, responded, sawAuthoritative, referral>>
    /\ UNCHANGED <<regionVars, handoffVars, viewVars, cfgVars, keyVars, runVars, matchVars, reqVars>>

\* one round whose response has the AA bit: return getAuthoritativeNS(domain, nsServers)
ProbeAuthoritative ==
    /\ wpc = "probe"
    /\ LoopCond
    /\ CandidateLoop(FALSE)
    /\ rounds' = rounds + 1
    /\ response' = Msg(TRUE, <<>>, <<>>, {})
    /\ lookups' = {}
    /\ lookedOk' = {}
    /\ responded' = TRUE
    /\ sawAuthoritative' = TRUE
    /\ wpc' = "enumerate"
    /\ UNCHANGED <<depth, nsServers, walkResult, anyLookup, referral>>
    /\ UNCHANGED <<regionVars, handoffVars, viewVars, cfgVars, keyVars, runVars, matchVars, reqVars>>

\* one round whose response is a referral: the next candidates, or "no more referrals"
ProbeReferral(r, up) ==
    /\ wpc = "probe"
    /\ LoopCond
    /\ CandidateLoop(FALSE)
    /\ rounds' = rounds + 1
    /\ response' = r
    /\ responded' = TRUE
    /\ lookups' = LookedUp(r.Ns, r.Extra)
    /\ lookedOk' = LookedUp(r.Ns, r.Extra) \cap up
    /\ anyLookup' = (anyLookup \/ LookedUp(r.Ns, r.Extra) # {})
    /\ LET newNS == ResolveNS(r.Ns, r.Extra, up)
       IN IF newNS = <<>>
          THEN /\ walkResult' = WalkError("no more referrals")
               /\ wpc' = "returned"
               /\ UNCHANGED <<depth, nsServers, referral>>
          ELSE /\ nsServers' = newNS
               /\ depth' = depth + 1
               /\ referral' = r
               /\ UNCHANGED <<wpc, walkResult>>
    /\ UNCHANGED sawAuthoritative
    /\ UNCHANGED <<regionVars, handoffVars, viewVars, cfgVars, keyVars, runVars, matchVars, reqVars>>

\* the loop ends: return nil, fmt.Errorf("max depth exceeded")
MaxDepthExceeded ==
    /\ wpc = "probe"
    /\ ~LoopCond
    /\ walkResult' = WalkError("max depth exceeded")
    /\ wpc' = "returned"
    /\ UNCHANGED <<depth, nsServers, response, lookups, anyLookup, responded, sawAuthoritative,
                   rounds, referral, probe, lookedOk>>
    /\ UNCHANGED <<regionVars, handoffVars, viewVars, cfgVars, keyVars, runVars, matchVars, reqVars>>

\* (mutant) the authority section is read even when the answer section has NS records
EnumNames_AuthorityFirst(r) == IF r.Ns # <<>> THEN r.Ns ELSE r.Answer
\* getAuthoritativeNS: the NS names of the answer section; if len(nsNames) == 0, those
\* of the authority section
EnumNames(r) == IF r.Answer # <<>> THEN r.Answer ELSE r.Ns

\* getAuthoritativeNS: no candidate answers the NS query
EnumerateNoResponse ==
    /\ wpc = "enumerate"
    /\ response' = NilMsg
    /\ lookups' = {}
    /\ lookedOk' = {}
    /\ walkResult' = WalkOK(Fallback(nsServers))
    /\ wpc' = "returned"
    /\ UNCHANGED <<depth, nsServers, anyLookup, responded, sawAuthoritative, rounds, referral,
                   probe>>
    /\ UNCHANGED <<regionVars, handoffVars, viewVars, cfgVars, keyVars, runVars, matchVars, reqVars>>

\* getAuthoritativeNS: the NS query is answered
EnumerateAnswer(r, up) ==
    /\ wpc = "enumerate"
    /\ response' = r
    /\ responded' = TRUE
    /\ LET nsNames == EnumNames(r)
           result == Endpoints(ResolveNS(nsNames, r.Extra, up))
       IN /\ lookups' = LookedUp(nsNames, r.Extra)
          /\ lookedOk' = LookedUp(nsNames, r.Extra) \cap up
          /\ anyLookup' = (anyLookup \/ LookedUp(nsNames, r.Extra) # {})
          /\ walkResult' = WalkOK(IF result = <<>> THEN Fallback(nsServers) ELSE result)
    /\ wpc' = "returned"
    /\ UNCHANGED <<depth, nsServers, sawAuthoritative, rounds, referral, probe>>
    /\ UNCHANGED <<regionVars, handoffVars, viewVars, cfgVars, keyVars, runVars, matchVars, reqVars>>

WalkNext ==
    \/ ProbeNoResponse
    \/ ProbeAuthoritative
    \/ \E r \in Referrals, up \in SUBSET NsNames : ProbeReferral(r, up)
    \/ MaxDepthExceeded
    \/ EnumerateNoResponse
    \/ \E r \in NsAnswers, up \in SUBSET NsNames : EnumerateAnswer(r, up)

WalkSpec == WalkInit /\ [][WalkNext]_vars

\* ---- the record matcher: records and their text ----
\* the digits of strconv / of the hexadecimal groups of an IPv6 address
Digits == <<"0", "1", "2", "3", "4", "5", "6", "7", "8", "9", "a", "b", "c", "d", "e", "f">>

\* a number as text in the given base (a string is a sequence of characters)
RECURSIVE Itoa(_, _)
Itoa(n, base) ==
    IF n < base THEN <<Digits[n + 1]>>
    ELSE Itoa(n \div base, base) \o <<Digits[(n % base) + 1]>>

\* strings.Join
RECURSIVE Join(_, _)
Join(parts, sep) ==
    IF parts = <<>> THEN <<>>
    ELSE IF Len(parts) = 1 THEN parts[1]
    ELSE parts[1] \o sep \o Join(Tail(parts), sep)

\* net.IP.String of a 4-byte address: the octets in decimal, joined by dots
IP4String(ip) == Join([i \in 1..Len(ip) |-> Itoa(ip[i], 10)], <<".">>)

\* net.IP.String of a 16-byte address: the groups in hexadecimal joined by colons,
\* the leftmost longest run of two or more zero groups written "::"
IP6String(ip) ==
    LET n == Len(ip)
        run(i) == IF ip[i] # 0 THEN 0
                  ELSE CHOOSE k \in 1..(n - i + 1) :
                           /\ \A j \in i..(i + k - 1) : ip[j] = 0
                           /\ (i + k > n \/ ip[i + k] # 0)
        best == CHOOSE k \in {run(i) : i \in 1..n} : \A i \in 1..n : run(i) <= k
        e0 == CHOOSE i \in 1..n : run(i) = best /\ \A j \in 1..(i - 1) : run(j) < best
        hex(a, b) == Join([k \in 1..(b - a + 1) |-> Itoa(ip[a + k - 1], 16)], <<":">>)
    IN IF best < 2 THEN hex(1, n)
       ELSE hex(1, e0 - 1) \o <<":", ":">> \o hex(e0 + best, n)

\* the resource records a response may carry, by the fields the matcher reads
RRs ==
    { [type |-> "A", A |-> <<1, 1, 1, 1>>],
      [type |-> "A", A |-> <<11, 1, 1, 1>>],
      [type |-> "AAAA", AAAA |-> <<0, 0, 0, 0, 0, 0, 0, 1>>],
      [type |-> "AAAA", AAAA |-> <<1, 0, 0, 0, 0, 0, 0, 1>>],
      [type |-> "TXT", Txt |-> << <<"a", "b">>, <<"c">> >>],
      [type |-> "TXT", Txt |-> << <<"b", "c">> >>],
      [type |-> "CNAME", Target |-> <<"c", ".", "b", ".">>],
      [type |-> "MX", Mx |-> <<"b", ".">>, Preference |-> 2],
      [type |-> "MX", Mx |-> <<"a", ".", "b", ".">>, Preference |-> 1] }

\* the text of a record that the matcher compares with the target
RRText(rr) ==
    CASE rr.type = "A" -> IP4String(rr.A)
      [] rr.type = "AAAA" -> IP6String(rr.AAAA)
      [] rr.type = "TXT" -> Join(rr.Txt, <<>>)
      [] rr.type = "CNAME" -> rr.Target
      [] rr.type = "MX" -> rr.Mx

\* the answer sections and lookup results of the model
AnswerSets == UNION {[1..n -> RRs] : n \in 0..MaxAnswers}

\* the target values of the model: non-empty (every front end rejects an empty
\* match), the full text of a record or a piece of at most MaxTarget characters
MatchTargets ==
    {RRText(rr) : rr \in RRs} \cup
    UNION {{SubSeq(RRText(rr), i, j) :
               i \in 1..Len(RRText(rr)),
               j \in 1..Len(RRText(rr))} \cap
           UNION {[1..n -> {"0", "1", ".", ":", "a", "b", "c"}] : n \in 1..MaxTarget}
           : rr \in RRs}

\* the record types that pass ParseRecordType
ValidTypes == {"a", "aaaa", "txt", "cname", "mx", "ns"}

\* strings.ToLower, on the type names of the model
ToLower(s) ==
    CASE s = "A" -> "a"
      [] s = "AAAA" -> "aaaa"
      [] s = "TXT" -> "txt"
      [] s = "CNAME" -> "cname"
      [] s = "MX" -> "mx"
      [] s = "NS" -> "ns"
      [] s = "SRV" -> "srv"
      [] OTHER -> s

\* ParseRecordType: the DNS type of a name, "0" for an unsupported one
ParseRecordType(s) ==
    CASE ToLower(s) = "a" -> "A"
      [] ToLower(s) = "aaaa" -> "AAAA"
      [] ToLower(s) = "txt" -> "TXT"
      [] ToLower(s) = "cname" -> "CNAME"
      [] ToLower(s) = "mx" -> "MX"
      [] ToLower(s) = "ns" -> "NS"
      [] OTHER -> "0"

\* (mutant) the target is looked for at the start of the text only
Contains_Prefix(s, substr) == Len(substr) <= Len(s) /\ SubSeq(s, 1, Len(substr)) = substr
\* strings.Contains
Contains(s, substr) ==
    \E i \in 0..(Len(s) - Len(substr)) : SubSeq(s, i + 1, i + Len(substr)) = substr

\* fmt.Sprintf("A %s"), ("AAAA %s"), ("CNAME %s"), ("MX %s (pref %d)"); a TXT
\* record is returned as its joined text
Sprintf(type, text, pref) ==
    CASE type = "A" -> <<"A", " ">> \o text
      [] type = "AAAA" -> <<"A", "A", "A", "A", " ">> \o text
      [] type = "TXT" -> text
      [] type = "CNAME" -> <<"C", "N", "A", "M", "E", " ">> \o text
      [] type = "MX" -> <<"M", "X", " ">> \o text \o <<" ", "(", "p", "r", "e", "f", " ">>
                        \o Itoa(pref, 10) \o <<")">>

\* one iteration of MatchRecord's loop: the switch on qtype with its type assertion
MatchCase(rr, qtype, target) ==
    LET pref == IF rr.type = "MX" THEN rr.Preference ELSE 0
        hit == [return |-> TRUE, value |-> Sprintf(rr.type, RRText(rr), pref)]
        next == [return |-> FALSE, value |-> <<>>]
    IN CASE qtype \in {"A", "AAAA"} /\ rr.type = qtype ->
                IF RRText(rr) = target THEN hit ELSE next
         [] qtype \in {"TXT", "CNAME", "MX"} /\ rr.type = qtype ->
                IF Contains(RRText(rr), target) THEN hit ELSE next
         [] OTHER -> next

\* MatchRecord: the first record in list order whose case returns
RECURSIVE MatchRecord(_, _, _)
MatchRecord(rrs, qtype, target) ==
    IF rrs = <<>> THEN <<>>
    ELSE LET c == MatchCase(Head(rrs), qtype, target)
         IN IF c.return THEN c.value ELSE MatchRecord(Tail(rrs), qtype, target)

\* ---- the resolver check ----
\* the records of one type among those the resolver serves
OfType(rrs, type) == SelectSeq(rrs, LAMBDA rr : rr.type = type)

\* resolver.LookupMX: the MX records sorted by preference
RECURSIVE LookupMX(_)
LookupMX(mxs) ==
    IF mxs = <<>> THEN <<>>
    ELSE LET h == Head(mxs)
             rest == LookupMX(Tail(mxs))
         IN SelectSeq(rest, LAMBDA m : m.Preference < h.Preference) \o <<h>>
            \o SelectSeq(rest, LAMBDA m : m.Preference >= h.Preference)

\* the loop of checkA, checkTXT, checkMX over the lookup's result (checkCNAME has
\* the single name of LookupCNAME): the first entry that matches
CheckLookup(found, type, equal, target) ==
    LET ok(rr) == IF equal THEN RRText(rr) = target ELSE Contains(RRText(rr), target)
        hits == SelectSeq(found, ok)
        pref == IF type = "MX" THEN Head(hits).Preference ELSE 0
    IN IF hits = <<>> THEN NotFound
       ELSE [record |-> Sprintf(type, RRText(Head(hits)), pref), found |-> TRUE]

\* CheckResolver: the switch on strings.ToLower(recordType)
CheckResolver(rrs, type, target) ==
    CASE ToLower(type) = "a" -> CheckLookup(OfType(rrs, "A"), "A", TRUE, target)
      [] ToLower(type) = "txt" -> CheckLookup(OfType(rrs, "TXT"), "TXT", FALSE, target)
      [] ToLower(type) = "cname" ->
            IF OfType(rrs, "CNAME") = <<>> THEN NotFound
            ELSE CheckLookup(<<Head(OfType(rrs, "CNAME"))>>, "CNAME", FALSE, target)
      [] ToLower(type) = "mx" ->
            CheckLookup(LookupMX(OfType(rrs, "MX")), "MX", FALSE, target)
      [] OTHER -> NotFound

\* ---- the matcher and the resolver check applied to one input ----
MatchInit ==
    /\ PollerInit
    /\ fe = "sync"
    /\ WalkIdle
    /\ RequestIdle
    /\ HandoffIdle /\ RegionIdle /\ ViewIdle /\ ConfigIdle
    /\ recordType \in ValidTypes
    /\ answers \in AnswerSets
    /\ match \in MatchTargets
    /\ applied = {}
    /\ matched = <<>>
    /\ resolved = NotFound

\* an authoritative check: MatchRecord on the answer section of the response
ApplyMatchRecord ==
    /\ "MatchRecord" \notin applied
    /\ matched' = MatchRecord(answers, ParseRecordType(recordType), match)
    /\ applied' = applied \cup {"MatchRecord"}
    /\ UNCHANGED <<regionVars, handoffVars, viewVars, cfgVars, keyVars, runVars, walkVars, reqVars, recordType, answers, match, resolved>>

\* a resolver check: CheckResolver on a resolver that serves the same records
ApplyCheckResolver ==
    /\ "CheckResolver" \notin applied
    /\ resolved' = CheckResolver(answers, recordType, match)
    /\ applied' = applied \cup {"CheckResolver"}
    /\ UNCHANGED <<regionVars, handoffVars, viewVars, cfgVars, keyVars, runVars, walkVars, reqVars, recordType, answers, match, matched>>

MatchNext == ApplyMatchRecord \/ ApplyCheckResolver

MatchSpec == MatchInit /\ [][MatchNext]_vars

\* ---- the boundary of the front ends ----
\* the record types the TUI form cycles through
recordTypes == <<"A", "AAAA", "TXT", "CNAME", "MX", "NS">>

\* strings.TrimSpace, on the field values of the model
TrimSpace(s) == IF s = " " THEN "" ELSE s

\* domain arguments without a final dot
Stems == {"", " ", "example.com"}
\* strings.HasSuffix(d, ".")
HasSuffixDot(d) == \E stem \in Stems : d = stem \o "."
\* (mutant) the domain is handed on as it came
Fqdn_AsGiven(d) == d
\* if !strings.HasSuffix(domain, ".") { domain = domain + "." }
Fqdn(d) == IF HasSuffixDot(d) THEN d ELSE d \o "."

\* the requests of the model: a query string or JSON body (http, sse), a command
\* line (cli: args is flag.NArg(), type the -t flag, match the -m flag), a filled
\* form (tui: type is the selected entry of recordTypes)
Requests ==
    {r \in [via : {"http", "sse", "cli", "tui"},
            args : {0, 1},
            domain : Stems \cup {"example.com."},
            type : {"", "a", "A", "aaaa", "txt", "cname", "mx", "ns", "srv"}
                   \cup {recordTypes[i] : i \in DOMAIN recordTypes},
            match : {"", " ", "v"}] :
        /\ r.via = "tui" => r.type \in {recordTypes[i] : i \in DOMAIN recordTypes}
        /\ r.via # "cli" => r.args = 1
        /\ r.args = 0 => r.domain = ""}

\* if recordType == "" { recordType = "a" }; config.Defaults.RecordType for the CLI
DefaultType(type) == IF type = "" THEN "a" ELSE type

\* the validation of handleCheck and handleCheckStream: the error, "" if none
Validation(req) ==
    IF req.domain = "" THEN "domain is required"
    ELSE IF req.match = "" THEN "match is required"
    ELSE IF ParseRecordType(DefaultType(req.type)) = "0" THEN "unsupported record type"
    ELSE ""

RequestInit ==
    /\ PollerInit
    /\ fe = "sync"
    /\ WalkIdle
    /\ MatchIdle
    /\ HandoffIdle /\ RegionIdle /\ ViewIdle /\ ConfigIdle
    /\ request \in Requests
    /\ rpc = "received"
    /\ reply = NoReply
    /\ engine = "none"
    /\ queries = 0
    /\ domain = <<>>

\* handleCheck up to the call of CheckPropagation
HandleCheck ==
    /\ request.via = "http"
    /\ rpc = "received"
    /\ IF Validation(request) # ""
       THEN /\ reply' = [kind |-> "400", errors |-> {Validation(request)}]
            /\ engine' = engine
            /\ domain' = domain
       ELSE /\ reply' = reply
            /\ engine' = "CheckPropagation"
            /\ domain' = <<Fqdn(request.domain)>>
    /\ rpc' = "done"
    /\ UNCHANGED <<regionVars, handoffVars, viewVars, cfgVars, keyVars, runVars, walkVars, matchVars, request, queries>>

\* handleCheckStream up to the call of runCheckStream
HandleCheckStream ==
    /\ request.via = "sse"
    /\ rpc = "received"
    /\ IF Validation(request) # ""
       THEN /\ reply' = [kind |-> "error event", errors |-> {Validation(request)}]
            /\ engine' = engine
            /\ domain' = domain
       ELSE /\ reply' = reply
            /\ engine' = "runCheckStream"
            /\ domain' = <<Fqdn(request.domain)>>
    /\ rpc' = "done"
    /\ UNCHANGED <<regionVars, handoffVars, viewVars, cfgVars, keyVars, runVars, walkVars, matchVars, request, queries>>

\* main in CLI mode, and runCLI up to the call of FindAuthoritativeServers
MainCLI ==
    /\ request.via = "cli"
    /\ rpc = "received"
    /\ IF request.args < 1
       THEN /\ reply' = [kind |-> "exit 1", errors |-> {"usage"}]
            /\ engine' = engine
       ELSE IF request.match = ""
       THEN /\ reply' = [kind |-> "exit 1", errors |-> {"-m (match) is required"}]
            /\ engine' = engine
       ELSE IF ParseRecordType(DefaultType(request.type)) = "0"
       THEN /\ reply' = [kind |-> "exit 1", errors |-> {"unsupported record type"}]
            /\ engine' = engine
       ELSE /\ reply' = reply
            /\ engine' = "FindAuthoritativeServers"
    \* runCLI normalises its argument first of all
    /\ domain' = IF engine' = "FindAuthoritativeServers" THEN <<Fqdn(request.domain)>> ELSE domain
    /\ rpc' = "done"
    /\ UNCHANGED <<regionVars, handoffVars, viewVars, cfgVars, keyVars, runVars, walkVars, matchVars, request, queries>>

\* FormModel.submit: field errors and no command, or the command of FormSubmitMsg
FormSubmit ==
    /\ request.via = "tui"
    /\ rpc = "received"
    /\ LET errors == {f \in {"fieldDomain", "fieldMatch"} :
                         \/ f = "fieldDomain" /\ TrimSpace(request.domain) = ""
                         \/ f = "fieldMatch" /\ TrimSpace(request.match) = ""}
       IN IF errors # {}
          THEN /\ reply' = [kind |-> "field errors", errors |-> errors]
               /\ rpc' = "done"
          ELSE /\ reply' = [kind |-> "FormSubmitMsg", errors |-> {}]
               /\ rpc' = "submitted"
    /\ UNCHANGED <<regionVars, handoffVars, viewVars, cfgVars, keyVars, runVars, walkVars, matchVars, request, engine, queries, domain>>

\* Model.Update on FormSubmitMsg: ResultsModel.StartCheck, with no validation
UpdateFormSubmit ==
    /\ rpc = "submitted"
    /\ reply.kind = "FormSubmitMsg"
    /\ engine' = "StartCheck"
    \* FormSubmitMsg.Domain is the trimmed field value
    /\ domain' = <<Fqdn(TrimSpace(request.domain))>>
    /\ rpc' = "done"
    /\ UNCHANGED <<regionVars, handoffVars, viewVars, cfgVars, keyVars, runVars, walkVars, matchVars, request, reply, queries>>

\* the engine's first step in every front end: FindAuthoritativeServers queries the
\* root servers
EngineQuery ==
    /\ engine # "none"
    /\ queries = 0
    /\ queries' = 1
    /\ UNCHANGED <<regionVars, handoffVars, viewVars, cfgVars, keyVars, runVars, walkVars, matchVars, request, rpc, reply, engine, domain>>

RequestNext ==
    \/ HandleCheck
    \/ HandleCheckStream
    \/ MainCLI
    \/ FormSubmit
    \/ UpdateFormSubmit
    \/ EngineQuery

RequestSpec == RequestInit /\ [][RequestNext]_vars

\* ---- properties ----
Streaming == fe \in {"sse", "tui"}
AllPropagated == \A t \in Targets : Propagated[t]
NonePropagated == \A t \in Targets : ~Propagated[t]
Emitted(types) == streamLog.emitted \cap types # {}

\* C1: in the streaming front ends a run places exactly one terminal event in its
\* stream: never two, and not none once the poller has returned.
C1_ExactlyOneTerminal ==
    Streaming => /\ Len(streamLog.terms) <= 1
                 /\ pc = "done" => Len(streamLog.terms) = 1

\* C2: no event is placed in the stream of a run after its terminal event.
C2_NothingAfterTerminal == ~streamLog.late

\* C3: at most one propagation event is emitted per target and run.
C3_PropagatedAtMostOnce == \A t \in Targets : streamLog.propSent[t] <= 1

\* C4: Complete is emitted (and the Completed exit taken) only with every target
\* propagated, and the completion test, like everything after a batch's barrier,
\* runs with no check of the sweep in flight.
C4_CompleteOnlyWhenAllPropagated ==
    /\ (Emitted(CompleteTypes) \/ outcome = "Completed") => AllPropagated
    /\ pc \in {"authSend", "res", "resSend", "eval", "wait", "sendComplete", "sendTimeout",
               "sleep", "build", "done"} => inflight = {}

\* a run that completed in a later sweep, after checks that found nothing
C4_Witness ==
    /\ Emitted(CompleteTypes)
    /\ sawNoMatch
    /\ ticks > 0

\* C5 as claimed: when every check matches on its first call, completion is decided
\* at the end of the first sweep, without a tick, and before the deadline has elapsed.
C5_CompleteBeforeDeadline ==
    [][(~sawNoMatch /\ pc = "eval" /\ outcome' = "Completed")
          => (ticks = 0 /\ deadline # "fired")]_vars

\* C5 amended: when every check matches on its first call the run consumes no tick
\* and emits no Timeout, whether or not the deadline elapses during the first sweep;
\* unless the TUI user cancels, it ends Completed with Complete as its only terminal
\* event (the synchronous wrapper returns all_propagated = true).
C5_FirstSweepCompletes ==
    ~sawNoMatch =>
        /\ ticks = 0
        /\ ~Emitted(TimeoutTypes)
        /\ outcome # "TimedOut"
        /\ (pc = "done" /\ outcome # "Failed" /\ ~(fe = "tui" /\ ctxDone)) =>
              /\ outcome = "Completed"
              /\ fe = "sync" => (resp.kind = "response" /\ resp.AllPropagated)
              /\ fe = "sse" => streamLog.terms = <<"complete">>
              /\ fe = "tui" => streamLog.terms = <<"CheckCompleteMsg">>

\* a run whose checks all matched at once and that completed although the deadline
\* elapsed during its first sweep
C5_Witness ==
    /\ pc = "done"
    /\ outcome = "Completed"
    /\ sawMatch /\ ~sawNoMatch
    /\ deadline = "fired"
    /\ Emitted(CompleteTypes)

\* C6: when no check ever matches, nothing is marked propagated, no propagation event
\* and no Complete is emitted, and the run ends with Timeout once its context is done
\* (the synchronous wrapper reports all_propagated = false at the deadline); in the
\* TUI this is the end of every run the user did not cancel.
C6_NoMatchEndsInTimeout ==
    ~sawMatch =>
        /\ NonePropagated
        /\ ~Emitted(PropagatedTypes)
        /\ ~Emitted(CompleteTypes)
        /\ outcome # "Completed"
        /\ (pc = "done" /\ outcome # "Failed" /\ ~(fe = "tui" /\ ctxDone)) =>
              /\ outcome = "TimedOut"
              /\ TimeoutDone
              /\ fe = "sync" => (resp.kind = "response" /\ ~resp.AllPropagated /\ deadline = "fired")
              /\ fe = "sse" => streamLog.terms = <<"timeout">>
              /\ fe = "tui" => (streamLog.terms = <<"CheckTimeoutMsg">> /\ deadline = "fired")

\* a run that swept on every tick, never matched and timed out
C6_Witness ==
    /\ pc = "done"
    /\ ~sawMatch /\ sawNoMatch
    /\ ticks = MaxTicks
    /\ outcome = "TimedOut"
    /\ deadline = "fired"

\* C7: a cancellation requested during Polling makes the terminal event Cancelled.
C7_CancelYieldsCancelled ==
    (cancelAt = "polling" /\ streamLog.terms # <<>>) => streamLog.terms[1] \in CancelledTypes

\* C8: once cancellation has been requested, no check result marks a target
\* propagated (so no propagation event exists for a target that matched afterwards).
C8_ResultsDiscardedAfterCancel ==
    [][ctxDone => (Propagated' = Propagated)]_vars

\* C9: a failed discovery is fatal: it is called once, no check batch is dispatched,
\* nothing is marked propagated, no event other than Error is emitted by the run (a
\* Cancelled only by a TUI user who cancelled), and the run ends with Error alone
\* (the synchronous wrapper returns the error and no response).
C9_DiscoveryFailureIsFatal ==
    outcome = "Failed" =>
        /\ discoverCalls = 1
        /\ dispatched = 0
        /\ inflight = {}
        /\ NonePropagated
        /\ streamLog.emitted \subseteq (ErrorTypes \cup CancelledTypes)
        /\ ~ctxDone => streamLog.emitted \subseteq ErrorTypes
        /\ pc \in {"sendError", "done"}
        /\ (pc = "done" /\ fe = "sync") => resp = Resp("error", FALSE)
        /\ (pc = "done" /\ fe = "sse") => streamLog.terms = <<"error">>
        /\ (pc = "done" /\ fe = "tui" /\ ~ctxDone) => streamLog.terms = <<"CheckErrorMsg">>

\* a TUI run whose discovery failed and that delivered its error message
C9_Witness ==
    /\ fe = "tui"
    /\ outcome = "Failed"
    /\ pc = "done"
    /\ streamLog.terms = <<"CheckErrorMsg">>
    /\ ~checkActive

C11_TerminalNeverDropped ==
    (Streaming /\ pc = "done") => streamLog.terms # <<>>

\* C12: a target's propagated flag only goes from false to true; FoundAt and Record
\* are unset before that transition, written at it (by a check that matched, with the
\* elapsed time of that moment and the record of that check) and never change after
\* it; the TUI consumer's copy of a target likewise takes the values of the first
\* success once and keeps them when the message arrives again.
C12_FirstSuccessWins ==
    [][\A t \in Targets :
          /\ Propagated[t] =>
                (Propagated'[t] /\ FoundAt'[t] = FoundAt[t] /\ Record'[t] = Record[t])
          /\ (~Propagated[t] /\ Propagated'[t]) =>
                /\ t \in inflight /\ lastCheck' = "match"
                /\ FoundAt'[t] = ticks + 1
                /\ Record'[t] = MatchedRecord
          /\ ~Propagated'[t] => (FoundAt'[t] = 0 /\ Record'[t] = "")
          /\ t \in uiProp => (t \in uiProp' /\ uiFoundAt'[t] = uiFoundAt[t])
          /\ (t \notin uiProp /\ t \in uiProp') => uiFoundAt'[t] = FoundAt[t]]_vars

\* a target that matched in the first sweep, whose message reached the consumer and
\* was placed in the stream again by the second sweep, all with the first values
C12_Witness ==
    /\ fe = "tui"
    /\ ticks = 1
    /\ \E t \in Targets :
          /\ Propagated[t] /\ FoundAt[t] = 1 /\ Record[t] = MatchedRecord
          /\ t \in uiProp /\ uiFoundAt[t] = 1
          /\ streamLog.propSent[t] = 2

\* C20: a check that ends in a network failure (as one that finds no match) changes
\* nothing but the barrier count: the status of every target, the position and exit of
\* the poller and the event stream stay as they are, so no Error is emitted and the
\* run goes on; every sweep checks every target that is still unpropagated again, a
\* new sweep starts at every tick, and a check that matches in the k-th sweep marks
\* its target propagated in that sweep, before the sweep's barrier.
C20_FailureAbsorbed ==
    [][/\ \A t \in Targets : (t \in inflight /\ t \notin inflight') =>
             IF lastCheck' = "match"
             THEN /\ Propagated'[t] /\ FoundAt'[t] = ticks + 1
                  /\ pc \in {"authWait", "resWait"} /\ pc' = pc
             ELSE /\ Propagated' = Propagated /\ FoundAt' = FoundAt /\ Record' = Record
                  /\ pc' = pc /\ outcome' = outcome /\ ticks' = ticks
                  /\ streamLog' = streamLog /\ eventCh' = eventCh /\ updateCh' = updateCh
                  /\ resp' = resp
       /\ (pc = "auth" /\ pc' # pc) => \A t \in AuthServers : ~Propagated[t] => t \in inflight'
       /\ (pc = "res" /\ pc' # pc) => \A t \in Resolvers : ~Propagated[t] => t \in inflight'
       /\ (pc = "wait" /\ ticks' # ticks) => (pc' = "auth" /\ ticks' = ticks + 1)]_vars

\* the scenario: the authoritative server matched at once, the resolver's first call
\* failed and its second call matched, and the run completed at the second sweep
C20_Witness ==
    /\ pc = "done"
    /\ outcome = "Completed"
    /\ sawFailure /\ ~Emitted(ErrorTypes)
    /\ ticks = 1
    /\ FoundAt[1] = 1
    /\ FoundAt[Local] = 2

\* ---- properties of the referral walk ----
Range(q) == {q[i] : i \in DOMAIN q}

\* what is left of a walk: the rounds it may still issue, then the loop exit or the
\* enumeration, then nothing
WalkVariant ==
    CASE wpc = "probe" -> 2 + (maxDepth - rounds)
      [] wpc = "enumerate" -> 1
      [] OTHER -> 0

\* C13: the walk issues at most maxDepth probe rounds: after maxDepth consecutive
\* referrals with a usable address it returns the max-depth error without another
\* round, that error is returned in no other case, and the walk returns for every
\* pattern of responses: every step of it, a referral that leads back to the same
\* servers included, uses up one of a bounded number of steps.
C13_AtMostTenRounds ==
    /\ [](/\ rounds <= maxDepth
          /\ depth <= rounds
          /\ depth = maxDepth =>
                /\ rounds = maxDepth
                /\ wpc \in {"probe", "returned"}
                /\ wpc = "returned" => walkResult = WalkError("max depth exceeded")
          /\ walkResult = WalkError("max depth exceeded") =>
                (depth = maxDepth /\ rounds = maxDepth /\ ~sawAuthoritative))
    /\ [][WalkVariant' < WalkVariant]_walkVars

\* a walk that followed maxDepth referrals and gave up
C13_Witness ==
    /\ wpc = "returned"
    /\ walkResult = WalkError("max depth exceeded")
    /\ rounds = maxDepth
    /\ ~referral.nil

\* C14 as claimed: once any server has responded, the walk returns a non-empty list
\* of endpoints and no error.
C14_AnyResponseYieldsEndpoints ==
    (wpc = "returned" /\ responded) =>
        (walkResult.kind = "ok" /\ walkResult.servers # <<>>)

\* C14 amended: the walk returns endpoints exactly when a probe got an authoritative
\* response, and then the list is never empty, whatever the NS enumeration gets: the
\* current candidates stand in when it fails or resolves no name.
C14_AuthoritativeYieldsEndpoints ==
    wpc = "returned" =>
        /\ sawAuthoritative <=> walkResult.kind = "ok"
        /\ walkResult.kind = "ok" => walkResult.servers # <<>>
        /\ walkResult.kind = "error" => walkResult.servers = <<>>

\* an enumeration that was answered but resolved no name, after one referral: the
\* candidates of the referral are returned
C14_Witness ==
    /\ wpc = "returned"
    /\ depth >= 1
    /\ ~response.nil
    /\ walkResult = WalkOK(Fallback(nsServers))

\* C15: a name with a glue A record in the response is never handed to the forward
\* lookup and is reached at its glue address, in a referral and in the NS enumeration;
\* a root referral to names 1 and 2 with glue for both, followed by an authoritative
\* NS answer for the same names with glue, returns exactly the two glue endpoints
\* without any forward lookup.
C15_GluePreferred ==
    /\ lookups \cap response.Extra = {}
    /\ depth > 0 =>
          /\ \A k \in DOMAIN nsServers :
                nsServers[k].from = "lookup" => nsServers[k].name \notin referral.Extra
          /\ \A n \in Range(referral.Ns) \cap referral.Extra : GlueAddr(n) \in Range(nsServers)
    /\ (wpc = "returned" /\ walkResult.kind = "ok" /\ ~response.nil
          /\ walkResult.servers[1].Name.from = "ns") =>
          LET nsNames == IF response.Answer # <<>> THEN response.Answer ELSE response.Ns
          IN /\ \A k \in DOMAIN walkResult.servers :
                   walkResult.servers[k].Addr.from = "lookup" =>
                       walkResult.servers[k].Addr.name \notin response.Extra
             /\ \A n \in Range(nsNames) \cap response.Extra :
                   [Name |-> NsName(n), Addr |-> GlueAddr(n)] \in Range(walkResult.servers)
    /\ (wpc = "returned" /\ rounds = 2
          /\ referral = Msg(FALSE, <<>>, <<1, 2>>, {1, 2})
          /\ ~response.nil /\ response.Answer = <<1, 2>> /\ response.Extra = {1, 2}) =>
          /\ walkResult = WalkOK(<<[Name |-> NsName(1), Addr |-> GlueAddr(1)],
                                   [Name |-> NsName(2), Addr |-> GlueAddr(2)]>>)
          /\ ~anyLookup

\* the scenario: root referral with glue for both names, authoritative probe, NS
\* answer with glue for both names
C15_Witness ==
    /\ wpc = "returned"
    /\ rounds = 2
    /\ referral = Msg(FALSE, <<>>, <<1, 2>>, {1, 2})
    /\ response = Msg(TRUE, <<1, 2>>, <<>>, {1, 2})
    /\ Len(walkResult.servers) = 2
    /\ ~anyLookup

\* ---- properties of the record matcher ----
\* target occurs in text as a contiguous piece
IsSubstring(target, text) ==
    \E i \in 1..(Len(text) + 1) : \E j \in 0..Len(text) : SubSeq(text, i, j) = target

\* the rule of the queried type, for one record
Satisfies(rr, qtype, target) ==
    /\ rr.type = qtype
    /\ \/ qtype = "A" /\ IP4String(rr.A) = target
       \/ qtype = "AAAA" /\ IP6String(rr.AAAA) = target
       \/ qtype = "TXT" /\ IsSubstring(target, Join(rr.Txt, <<>>))
       \/ qtype = "CNAME" /\ IsSubstring(target, rr.Target)
       \/ qtype = "MX" /\ IsSubstring(target, rr.Mx)

\* the positions of the answer section whose record satisfies the rule
Matching == {i \in 1..Len(answers) : Satisfies(answers[i], ParseRecordType(recordType), match)}

\* C16: MatchRecord returns a non-empty string iff some record of the queried type
\* satisfies the type's rule (A, AAAA: the textual address equals the target; TXT: the
\* segments joined with no separator contain it; CNAME, MX: the name contains it); the
\* string describes the first such record in list order; an unsupported type (NS) and
\* a record set without such a record yield the empty string.
C16_MatchRecordSemantics ==
    "MatchRecord" \in applied =>
        /\ (matched # <<>>) <=> (Matching # {})
        /\ Matching # {} =>
              LET first == answers[CHOOSE i \in Matching : \A j \in Matching : i <= j]
                  pref == IF first.type = "MX" THEN first.Preference ELSE 0
              IN matched = Sprintf(first.type, RRText(first), pref)
        /\ ParseRecordType(recordType) = "NS" => matched = <<>>

\* a TXT target that spans the segment boundary of the second record, after a record
\* of another type: the second record's joined text is returned
C16_Witness ==
    /\ "MatchRecord" \in applied
    /\ recordType = "txt"
    /\ match = <<"b", "c">>
    /\ Len(answers) = 2
    /\ answers[1].type = "A"
    /\ answers[2].type = "TXT"
    /\ answers[2].Txt = << <<"a", "b">>, <<"c">> >>
    /\ matched = <<"a", "b", "c">>

\* C17: for each record type the resolver check reports a match iff the Record Matcher
\* does on the same records.
C17_ResolverAgreesWithMatcher ==
    applied = {"MatchRecord", "CheckResolver"} => (resolved.found <=> matched # <<>>)

\* ---- properties of the boundary ----
\* the record type a request asks for
RequestedType == ToLower(DefaultType(request.type))

\* C18: for a request whose record type is outside {A, AAAA, TXT, CNAME, MX} no front
\* end starts the engine and no DNS query is issued.
C18_UnsupportedTypeRejected ==
    RequestedType \notin {"a", "aaaa", "txt", "cname", "mx"} =>
        engine = "none" /\ queries = 0

\* C19: for a request with an empty domain or an empty match value no front end
\* starts the engine and no DNS query is issued; the handler answers 400 (HTTP), one
\* error event (SSE), an error exit (CLI), field errors and no FormSubmitMsg (TUI).
C19_MissingFieldRejected ==
    (request.domain = "" \/ request.match = "") =>
        /\ engine = "none"
        /\ queries = 0
        /\ rpc = "done" =>
              /\ request.via = "http" => reply.kind = "400"
              /\ request.via = "sse" => reply.kind = "error event" /\ Cardinality(reply.errors) = 1
              /\ request.via = "cli" => reply.kind = "exit 1"
              /\ request.via = "tui" => reply.kind = "field errors"

C22_CtrlCCancelsThenQuits ==
    /\ (lastKey.key \in {"ctrl+c", "esc"} /\ lastKey.active) =>
           lastKey.effect = "cancel" /\ ~quit
    /\ (lastKey.key = "ctrl+c" /\ ~lastKey.active) => lastKey.effect = "quit" /\ quit

\* ---- properties of the order of events ----
DiscoveredTypes == {"discovered", "AuthServerDiscoveredMsg"}
ResolversTypes == {"resolver", "ResolverInitializedMsg"}

\* the position of the first event of one of the types in the stream, 0 if there is none
First(types) ==
    IF Emitted(types)
    THEN CHOOSE i \in DOMAIN streamLog.order :
             /\ streamLog.order[i] \in types
             /\ \A j \in 1..(i - 1) : streamLog.order[j] \notin types
    ELSE 0

BetweenSweeps == pc \in {"wait", "authRetry", "resRetry"}

\* C24: in every sweep each target not yet propagated, of the authoritative and of the
\* resolver set, is given to the checker: a target still unpropagated when the sweep
\* is over was checked in it, from the first sweep on.
C24_EverySweepChecksBothSets ==
    BetweenSweeps => \A t \in Targets : ~Propagated[t] => checked[t] >= 1

\* C25: a batch gives exactly one check to each of its targets that is unpropagated at
\* dispatch and none to a propagated one, no target gets a second check within a sweep,
\* and a propagated target is not queried in any later sweep.
C25_OneCheckPerSweep ==
    /\ [](\A t \in Targets : checked[t] <= 1)
    /\ [][/\ \A t \in inflight' \ inflight : ~Propagated[t] /\ checked[t] = 0
          /\ dispatched' # dispatched =>
                LET batch == IF pc = "auth" THEN AuthServers ELSE Resolvers
                IN /\ inflight' \ inflight = {t \in batch : ~Propagated[t]}
                   /\ \A t \in Targets :
                         checked'[t] = IF t \in batch /\ ~Propagated[t] THEN 1 ELSE checked[t]
          /\ \A t \in Targets : (Propagated[t] /\ checked[t] = 0) => checked'[t] = 0]_vars

\* the second sweep of a run whose authoritative server matched in the first: it is
\* skipped, the resolver is checked once more
C25_Witness ==
    /\ ticks = 1
    /\ pc = "eval"
    /\ \E a \in AuthServers : Propagated[a] /\ FoundAt[a] = 1 /\ checked[a] = 0
    /\ \E r \in Resolvers : checked[r] = 1 /\ lastCheck = "nomatch"

\* C26: no batch of checks is dispatched, and no tick starts a new sweep, once the
\* cancellation has been requested or the deadline has elapsed.
C26_NoDispatchAfterStop ==
    [][(ctxDone \/ deadline = "fired") => (dispatched' = dispatched /\ ticks' = ticks)]_vars

\* ---- properties of the hand-off ----
\* C27: emitting a TargetPropagated event never blocks a check goroutine (and with it
\* the region of the run mutex and the sweep barrier), whatever the number of targets
\* and the speed of the consumer.
C27_EmitNeverBlocks == ~sending

\* ---- properties of the locked regions ----
\* a status whose flag is written and whose other fields are not yet
HalfWritten(i) == statuses[i].Propagated /\ statuses[i].Record = ""

\* C28: no two of the check goroutines and the poller are between mu.Lock() and
\* mu.Unlock() at the same time, every assignment to a status field is made there, and
\* the poller's reads of the flag (skip test, completion test) see no half-written
\* status.
C28_StatusUnderMutex ==
    /\ \A g, h \in 0..MaxBatch : (InRegion(g) /\ InRegion(h)) => g = h
    /\ \A g \in 0..MaxBatch : InRegion(g) => mu
    /\ \A i \in BatchIdx : HalfWritten(i) => gpc[i] \in {"setF", "setR"}
    /\ gpc[0] \in {"skipRead", "testRead"} => \A i \in BatchIdx : ~HalfWritten(i)

\* a check goroutine is half way through its writes while another waits for the mutex
C28_Witness == \E g, h \in BatchIdx : HalfWritten(g) /\ gpc[h] = "lock"

\* ---- properties of the candidate loop ----
\* C29: in every round the candidates are asked in list order up to and including the
\* first that answers, its response is the one kept and no later candidate is asked;
\* the walk ends with the no-response error exactly when no candidate of the round
\* answers, as it does at once when the root list is empty.
C29_FirstResponderUsed ==
    rounds > 0 =>
        /\ probe.n = 0 => probe.from = 0
        /\ (probe.from = 0) = (probe.answering = {})
        /\ (probe.from = 0) = (walkResult = WalkError("no response from nameservers"))
        /\ probe.from = 0 => (probe.asked = probe.n /\ response = NilMsg)
        /\ probe.from # 0 =>
              /\ probe.from \in probe.answering
              /\ \A j \in 1..(probe.from - 1) : j \notin probe.answering
              /\ probe.asked = probe.from
              /\ ~response.nil \/ wpc = "returned"

\* both candidates of a referral would answer: the first is asked, the second is not
C29_Witness ==
    /\ depth > 0
    /\ probe.n = 2
    /\ probe.answering = {1, 2}
    /\ probe.asked = 1
    /\ probe.from = 1

\* ---- properties of a referral ----
\* the positions of the NS names of a referral that gave an address: those with a glue
\* record and those whose forward lookup put an address in the new list
Usable(msg, newNS) ==
    {i \in DOMAIN msg.Ns :
        \/ msg.Ns[i] \in msg.Extra
        \/ \E k \in DOMAIN newNS : newNS[k] = HostAddr(msg.Ns[i])}

\* the address the walk takes for an NS name
AddrOf(msg, n) == IF n \in msg.Extra THEN GlueAddr(n) ELSE HostAddr(n)

\* C30: a round whose response is not authoritative ends the walk with the
\* no-referral error, at the same depth, when the response has no NS name or none of
\* its NS names has glue or resolves; otherwise the candidate list becomes the
\* addresses of the usable NS names, one each, in the order of the NS records, and the
\* depth grows by one.
C30_ReferralStep ==
    [][(wpc = "probe" /\ rounds' = rounds + 1 /\ ~response'.nil /\ ~response'.Authoritative) =>
          IF walkResult' = WalkError("no more referrals")
          THEN /\ wpc' = "returned"
               /\ depth' = depth
               /\ nsServers' = nsServers
               /\ \A i \in DOMAIN response'.Ns : response'.Ns[i] \notin response'.Extra
          ELSE /\ wpc' = "probe"
               /\ walkResult' = walkResult
               /\ depth' = depth + 1
               /\ nsServers' # <<>>
               /\ response'.Ns # <<>>
               /\ LET use == Usable(response', nsServers')
                  IN /\ Len(nsServers') = Cardinality(use)
                     /\ \A i \in use :
                           nsServers'[Cardinality({j \in use : j <= i})] =
                               AddrOf(response', response'.Ns[i])]_vars

\* a referral with two NS names, the first with glue, the second resolved by lookup
C30_Witness ==
    /\ wpc = "probe"
    /\ depth > 0
    /\ referral = response
    /\ Len(response.Ns) = 2
    /\ response.Ns[1] # response.Ns[2]
    /\ nsServers = <<GlueAddr(response.Ns[1]), HostAddr(response.Ns[2])>>

\* ---- properties of the NS enumeration ----
\* the walk has returned from getAuthoritativeNS with the NS query answered
Enumerated == wpc = "returned" /\ sawAuthoritative /\ ~response.nil

\* the section the enumeration reads, and its positions that give an endpoint: the
\* name has a glue record or its forward lookup returned an address
ReadSection == IF response.Answer = <<>> THEN response.Ns ELSE response.Answer
Resolvable == {i \in DOMAIN ReadSection :
                  ReadSection[i] \in response.Extra \/ ReadSection[i] \in lookedOk}

\* C31: the enumeration reads the NS names of the answer section, those of the
\* authority section only when the answer section has none, and returns one endpoint
\* for each position whose name resolves, in record order, a position whose name does
\* not resolve being left out and a name listed twice giving two endpoints.
C31_EnumerationEndpoints ==
    (Enumerated /\ Resolvable # {}) =>
        /\ walkResult.kind = "ok"
        /\ Len(walkResult.servers) = Cardinality(Resolvable)
        /\ \A i \in Resolvable :
              LET e == walkResult.servers[Cardinality({j \in Resolvable : j <= i})]
              IN /\ e.Name = NsName(ReadSection[i])
                 /\ e.Addr = AddrOf(response, ReadSection[i])

\* an answer section that lists the same name twice, over an authority section that
\* is not read: two endpoints for the one name
C31_Witness ==
    /\ Enumerated
    /\ Len(response.Answer) = 2
    /\ response.Answer[1] = response.Answer[2]
    /\ response.Ns # <<>>
    /\ response.Ns[1] # response.Answer[1]
    /\ Len(walkResult.servers) = 2
    /\ walkResult.servers[1] = walkResult.servers[2]

\* C32: when no candidate answers the NS query, or the answer gives no resolvable
\* name, the walk returns without error the candidates it had: one endpoint for each,
\* in the same order, with the candidate's address.
C32_FallbackIsCandidates ==
    (wpc = "returned" /\ sawAuthoritative /\ (response.nil \/ Resolvable = {})) =>
        /\ walkResult.kind = "ok"
        /\ walkResult.err = ""
        /\ Len(walkResult.servers) = Len(nsServers)
        /\ \A i \in DOMAIN nsServers :
              /\ walkResult.servers[i].Addr = nsServers[i]
              /\ walkResult.servers[i].Name = nsServers[i]

\* no candidate of a referral to two servers answers the NS query
C32_Witness ==
    /\ wpc = "returned"
    /\ sawAuthoritative
    /\ response.nil
    /\ Len(nsServers) = 2
    /\ Len(walkResult.servers) = 2

\* ---- properties of the returned endpoints ----
\* C33 as claimed: a walk that returns without error returns a list that is not empty
\* and in which every endpoint has a non-empty address.
C33_EndpointsHaveAddress ==
    (wpc = "returned" /\ walkResult.kind = "ok") =>
        /\ walkResult.servers # <<>>
        /\ \A k \in DOMAIN walkResult.servers : walkResult.servers[k].Addr # BlankAddr

\* C33 amended: a walk that returns without error returns a list that is not empty;
\* an endpoint has an empty address only when the configured root list holds an empty
\* entry and that list is returned as the fallback of an enumeration at depth 0.
C33_EndpointsNonEmpty ==
    (wpc = "returned" /\ walkResult.kind = "ok") =>
        /\ walkResult.servers # <<>>
        /\ \A k \in DOMAIN walkResult.servers :
              walkResult.servers[k].Addr = BlankAddr =>
                  /\ depth = 0
                  /\ nsServers[k] = BlankAddr
                  /\ (response.nil \/ Resolvable = {})

\* the root list holds an empty entry and an authoritative server whose NS answer
\* resolves no name: the empty entry is returned as an endpoint
C33_Witness ==
    /\ wpc = "returned"
    /\ walkResult.kind = "ok"
    /\ depth = 0
    /\ ~response.nil
    /\ walkResult.servers[1].Addr = BlankAddr

C38_CompleteShowsAllPropagated ==
    [][(cmd = "holding" /\ inbox.type = "CheckCompleteMsg" /\ inbox' = NoMsg) =>
          (uiKnown' = Targets /\ uiProp' = Targets)]_vars

\* ---- properties of the views ----
\* C36: while checkActive is true the current view is the results view: the keys n, h
\* and c do not navigate, and no message leaves checkActive with another view.
C36_ActiveShowsResults == checkActive => currentView = "ViewResults"

\* a navigation key was given to Model.Update while a check was active, outside the overlay
C36_Witness ==
    /\ checkActive
    /\ lastKey.key \in {"n", "h", "c"} /\ lastKey.active /\ ~lastKey.help

\* C37: when FormSubmitMsg or HistoryRerunMsg starts a check, the goroutine of no
\* earlier check is still running with its context not cancelled, and no message of an
\* earlier check is applied to the results model or to checkActive of a later one.
C37_OneCheckAtATime == ~overlapped /\ ~misapplied

\* C39: Model.Update of a terminal message clears checkActive and prepends exactly one
\* entry to the history, the most recent first; no other step changes the history.
C39_TerminalPrependsOne ==
    [][IF \E i \in DOMAIN arrived :
             arrived[i].type \in TuiTerminal /\ arrived' = Without(arrived, i)
       THEN /\ ~checkActive'
            /\ historyData' # <<>>
            /\ Tail(historyData') = historyData
            /\ \E i \in DOMAIN arrived :
                  /\ arrived' = Without(arrived, i)
                  /\ Head(historyData').Status = EntryStatus(arrived[i].type)
       ELSE historyData' = historyData]_vars

\* two terminal messages have been processed, with different outcomes
C39_Witness ==
    /\ Len(historyData) = 2
    /\ historyData[1].Status # historyData[2].Status

\* ---- properties of LoadConfig ----
\* C40: LoadConfig overwrites exactly the fields of the base configuration that are set
\* in the file (a non-empty string, a non-empty list) and leaves the others as they
\* were; when the file cannot be read or parsed it returns the error and leaves the
\* base configuration unchanged.
C40_LoadConfigMerges ==
    loadErr # "pending" =>
        IF fileData.kind = "yaml"
        THEN /\ loadErr = "nil"
             /\ \A f \in StringFields :
                    cfg[f] = IF fileData.keys[f] \in {<<>>, <<"">>} THEN baseCfg[f]
                             ELSE fileData.keys[f][1]
             /\ \A f \in ListFields :
                    cfg[f] = IF fileData.keys[f] \in {<<>>, <<<<>>>>} THEN baseCfg[f]
                             ELSE fileData.keys[f][1]
        ELSE loadErr \in {"read", "parse"} /\ cfg = baseCfg

\* a file that sets some fields, leaves one out and holds one as the empty string has
\* been loaded
C40_Witness ==
    /\ loadErr = "nil"
    /\ fileData.keys.Timeout = <<"file">> /\ cfg.Timeout = "file"
    /\ fileData.keys.Retry = <<>> /\ cfg.Retry = "5s"
    /\ fileData.keys.RecordType = <<"">> /\ cfg.RecordType = "a"
    /\ fileData.keys.RootServers = <<<<>>>> /\ cfg.RootServers = <<"198.41.0.4:53">>
    /\ cfg.PublicResolvers = <<"9.9.9.9:53">>

====
